---- MODULE Spec2Model ----
(***************************************************************************)
(* Player-statistics engine of spiffo-pz-bot: LogParser.parse_logs         *)
(* (src/analytics/log_parser.py) and PlayerStatsTracker                    *)
(* (src/analytics/player_stats.py).                                        *)
(*                                                                         *)
(* Specifications:                                                         *)
(*   ParseSpec     one parse_logs call, folded line by line;               *)
(*   Spec          the tracker process: update_from_logs calls (parse,     *)
(*                 merge, save) and process restarts (reload of the file); *)
(*   EndToEndSpec  one parse_logs call on a connect / kills / death /      *)
(*                 disconnect sequence of one user;                        *)
(*   PlaystyleSpec the playstyle profiles and mod recommendations of a     *)
(*                 single player, on both sides of every threshold;        *)
(*   QuerySpec     the queries on a store of up to two players:            *)
(*                 leaderboards, player lookup, profiles, recommendations. *)
(***************************************************************************)
EXTENDS Integers, Sequences, FiniteSets, TLC

VARIABLES
    \* ---- ParseSpec: the locals of one parse_logs call
    player_stats,      \* the defaultdict username -> record
    session_starts,    \* pending session starts, username -> timestamp
    line,              \* the line folded last (NoLine before the first)
    nlines,            \* number of lines folded so far
    unresolved,        \* some matched event so far had no resolvable timestamp
    \* ---- Spec: the tracker process
    stats,             \* PlayerStatsTracker.stats, the in-memory mapping
    file,              \* content of the stats file
    op,                \* the operation performed last
    batch,             \* the log_lines of the last update_from_logs call
    outcome,           \* how the last operation ended ("ok" or the error raised)
    ingested,          \* every line given to update_from_logs so far, in order
    inserted,          \* the usernames the last update_from_logs call put in as new
    reloaded,          \* the process has been restarted at least once
    \* ---- EndToEndSpec
    script,            \* the log_lines of the parse_logs call (<<>> elsewhere)
    \* ---- QuerySpec
    query,             \* the query asked last and its arguments
    answer,            \* what the query returned
    asked              \* number of queries asked so far

vars == <<player_stats, session_starts, line, nlines, unresolved,
          stats, file, op, batch, outcome, ingested, inserted, reloaded,
          script, query, answer, asked>>

parseVars == <<player_stats, session_starts, line, nlines, unresolved>>
storeVars == <<stats, file, op, batch, outcome, ingested, inserted, reloaded>>
askVars == <<script, query, answer, asked>>

\* ------------------------------------------------------------------ bounds
\* lines folded by one parse_logs call in ParseSpec
MaxBatch == 3
\* lines given to update_from_logs, all calls together, in Spec
MaxLines == 2

Users == {"Bob", "Amy"}
Times == {1, 2}

\* ------------------------------------------------------------------ values
\* Python values that a timestamp field can hold: None, a datetime, or the
\* str that datetime.isoformat() returns (v is the instant, in seconds).
None == [tag |-> "None", v |-> 0]
Datetime(t) == [tag |-> "datetime", v |-> t]
IsoFormat(d) == [tag |-> "str", v |-> d.v]
IsDatetime(x) == x.tag = "datetime"
\* truth value of such a field: None is falsy, a datetime and a non-empty str are truthy
Truthy(x) == x.tag # "None"

\* ------------------------------------------------------------------ log lines
\* A log line, by what the recognizers look at: the event phrase it holds
\* ("junk" when none), the username in it, the bracketed timestamp text
\* (absent, digits that are no date, or a date), the number and the label
\* of the phrase, and the death-cause keywords occurring in the line.
NoStamp == [form |-> "none", t |-> 0]
BadStamp == [form |-> "bad", t |-> 0]
Dmy(t) == [form |-> "dmy", t |-> t]
Ymd(t) == [form |-> "ymd", t |-> t]

MkLine(phrase, username, stamp, amount, label, keywords) ==
    [phrase |-> phrase, username |-> username, stamp |-> stamp,
     amount |-> amount, label |-> label, keywords |-> keywords]

NoLine == MkLine("none", "", NoStamp, 0, "", {})

PATTERNS ==
    <<"player_connect", "player_disconnect", "zombie_killed", "player_death",
      "distance_traveled", "level_up", "item_crafted", "vehicle_entered",
      "building_placed">>

\* the amount of a line whose number text is not \d+ ("3.5", "many")
NotDigits == -1

\* pattern.search(line) with number groups that accept any text
Matches_AnyAmount(event_type, l) ==
    /\ l.phrase = event_type
    /\ (event_type = "player_disconnect" \/ l.stamp.form # "none")

\* pattern.search(line): every pattern but player_disconnect starts with the
\* bracketed timestamp group \[[\d\-: \.]+\], so it needs the bracket; the
\* number groups of distance_traveled and level_up are (\d+).
Matches(event_type, l) ==
    /\ l.phrase = event_type
    /\ (event_type = "player_disconnect" \/ l.stamp.form # "none")
    /\ (event_type \in {"distance_traveled", "level_up"} => l.amount # NotDigits)

\* data.get('timestamp'): player_disconnect has no timestamp group.
TimestampStr(event_type, l) ==
    IF event_type = "player_disconnect" THEN NoStamp ELSE l.stamp

\* strptime with '%d-%m-%y %H:%M:%S' (fraction cut off), then with
\* '%Y-%m-%d %H:%M:%S'; None when both fail or there is no timestamp text.
ParseTimestamp(stamp) ==
    IF stamp.form = "none" THEN None
    ELSE IF stamp.form = "dmy" THEN Datetime(stamp.t)
    ELSE IF stamp.form = "ymd" THEN Datetime(stamp.t)
    ELSE None

CauseTable ==
    << <<"zombie", "Zombie">>, <<"starvation", "Starvation">>,
       <<"dehydration", "Dehydration">>, <<"bleeding", "Blood Loss">>,
       <<"infection", "Infection">>, <<"fall", "Fall Damage">>,
       <<"fire", "Fire">>, <<"vehicle", "Vehicle Accident">> >>

\* str.lower() of a word of the line (keywords holds the words of the cause
\* table that the line contains, each as the line spells it)
Lower(word) ==
    CASE word = "Zombie" -> "zombie"
      [] word = "STARVATION" -> "starvation"
      [] word = "Bleeding" -> "bleeding"
      [] word = "Fall" -> "fall"
      [] word = "FIRE" -> "fire"
      [] word = "Vehicle" -> "vehicle"
      [] OTHER -> word

\* _extract_death_cause without log_line.lower()
ExtractDeathCause_CaseSensitive(l) ==
    LET hits == {i \in 1..Len(CauseTable) : CauseTable[i][1] \in l.keywords}
    IN  IF hits = {} THEN "Unknown"
        ELSE CauseTable[CHOOSE i \in hits : \A j \in hits : i <= j][2]

ExtractDeathCause(l) ==
    LET log_lower == {Lower(word) : word \in l.keywords}
        hits == {i \in 1..Len(CauseTable) : CauseTable[i][1] \in log_lower}
    IN  IF hits = {} THEN "Unknown"
        ELSE CauseTable[CHOOSE i \in hits : \A j \in hits : i <= j][2]

\* ------------------------------------------------------------------ records
InitialStats ==
    [lifetime_zombies_killed |-> 0,
     lifetime_distance_traveled |-> 0,
     lifetime_items_crafted |-> <<>>,
     lifetime_buildings_placed |-> <<>>,
     current_life_zombies_killed |-> 0,
     current_life_distance_traveled |-> 0,
     current_life_items_crafted |-> <<>>,
     current_life_buildings_placed |-> <<>>,
     current_life_start |-> None,
     connections |-> 0,
     disconnections |-> 0,
     zombies_killed |-> 0,
     deaths |-> 0,
     death_causes |-> <<>>,
     death_timestamps |-> <<>>,
     distance_traveled |-> 0,
     level_ups |-> <<>>,
     items_crafted |-> <<>>,
     vehicles_entered |-> 0,
     buildings_placed |-> <<>>,
     first_seen |-> None,
     last_seen |-> None,
     last_death |-> None,
     session_times |-> <<>>,
     lives |-> <<>>]

\* A Python dict: its keys in insertion order, and the value of each key.
EmptyDict == [keys |-> <<>>, val |-> [u \in {} |-> InitialStats]]
Has(d, u) == u \in DOMAIN d.val
Put(d, u, r) ==
    IF Has(d, u) THEN [d EXCEPT !.val[u] = r]
    ELSE [keys |-> Append(d.keys, u),
          val |-> [x \in (DOMAIN d.val) \cup {u} |-> IF x = u THEN r ELSE d.val[x]]]

\* del session_starts[username]
Del(f, u) == [x \in (DOMAIN f) \ {u} |-> f[x]]
Set(f, u, v) == [x \in (DOMAIN f) \cup {u} |-> IF x = u THEN v ELSE f[x]]

\* ------------------------------------------------------------------ parse_logs
\* The life segment a death closes.
LifeSegment(r, timestamp, cause) ==
    [start |-> r.current_life_start,
     end |-> timestamp,
     duration |-> IF Truthy(timestamp) THEN timestamp.v - r.current_life_start.v ELSE 0,
     zombies_killed |-> r.current_life_zombies_killed,
     distance_traveled |-> r.current_life_distance_traveled,
     items_crafted |-> Len(r.current_life_items_crafted),
     buildings_placed |-> Len(r.current_life_buildings_placed),
     death_cause |-> cause]

\* "Update first/last seen": the first timestamp seen, and the last one.
UpdateSeen(r, timestamp) ==
    IF Truthy(timestamp)
    THEN [r EXCEPT !.first_seen = IF r.first_seen = None THEN timestamp ELSE @,
                   !.last_seen = timestamp]
    ELSE r

\* a connect that starts the current life anew each time
OnConnect_AlwaysSets(r, timestamp) ==
    [r EXCEPT !.connections = @ + 1,
              !.current_life_start = timestamp]

OnConnect(r, timestamp) ==
    [r EXCEPT !.connections = @ + 1,
              !.current_life_start = IF @ = None THEN timestamp ELSE @]

\* The pairing branch of a disconnect: a pending start and a timestamp.
\* (The timestamp of a player_disconnect match is always None, see
\* TimestampStr, so parse_logs never enters the branch.)
PairsSession(ss, username, timestamp) ==
    username \in DOMAIN ss /\ Truthy(timestamp)

\* a disconnect that records a session whether or not one is open
OnDisconnect_AlwaysAppends(r, ss, username, timestamp) ==
    [r EXCEPT !.disconnections = @ + 1,
              !.session_times = Append(@, 0)]

\* a disconnect without pending start that records a session of no length
OnDisconnect_UnpairedCounts(r, ss, username, timestamp) ==
    IF PairsSession(ss, username, timestamp)
    THEN [r EXCEPT !.disconnections = @ + 1,
                   !.session_times = Append(@, timestamp.v - ss[username].v)]
    ELSE [r EXCEPT !.disconnections = @ + 1,
                   !.session_times = Append(@, 0)]

OnDisconnect(r, ss, username, timestamp) ==
    IF PairsSession(ss, username, timestamp)
    THEN [r EXCEPT !.disconnections = @ + 1,
                   !.session_times = Append(@, timestamp.v - ss[username].v)]
    ELSE [r EXCEPT !.disconnections = @ + 1]

OnZombieKilled(r) ==
    [r EXCEPT !.zombies_killed = @ + 1,
              !.lifetime_zombies_killed = @ + 1,
              !.current_life_zombies_killed = @ + 1]

\* OnDeath with the reset of the current-life kill counter left out
OnDeath_KeepsKills(r, timestamp, cause) ==
    [r EXCEPT !.deaths = @ + 1,
              !.death_timestamps = Append(@, timestamp),
              !.last_death = timestamp,
              !.death_causes = Append(@, cause),
              !.lives = IF Truthy(r.current_life_start)
                        THEN Append(@, LifeSegment(r, timestamp, cause))
                        ELSE @,
              !.current_life_distance_traveled = 0,
              !.current_life_items_crafted = <<>>,
              !.current_life_buildings_placed = <<>>,
              !.current_life_start = timestamp]

\* a death that takes the lifetime kills and distance with the life it closes
OnDeath_ResetsLifetime(r, timestamp, cause) ==
    [r EXCEPT !.deaths = @ + 1,
              !.death_timestamps = Append(@, timestamp),
              !.last_death = timestamp,
              !.death_causes = Append(@, cause),
              !.lives = IF Truthy(r.current_life_start)
                        THEN Append(@, LifeSegment(r, timestamp, cause))
                        ELSE @,
              !.lifetime_zombies_killed = 0,
              !.lifetime_distance_traveled = 0,
              !.current_life_zombies_killed = 0,
              !.current_life_distance_traveled = 0,
              !.current_life_items_crafted = <<>>,
              !.current_life_buildings_placed = <<>>,
              !.current_life_start = timestamp]

OnDeath(r, timestamp, cause) ==
    [r EXCEPT !.deaths = @ + 1,
              !.death_timestamps = Append(@, timestamp),
              !.last_death = timestamp,
              !.death_causes = Append(@, cause),
              !.lives = IF Truthy(r.current_life_start)
                        THEN Append(@, LifeSegment(r, timestamp, cause))
                        ELSE @,
              !.current_life_zombies_killed = 0,
              !.current_life_distance_traveled = 0,
              !.current_life_items_crafted = <<>>,
              !.current_life_buildings_placed = <<>>,
              !.current_life_start = timestamp]

OnDistance(r, distance) ==
    [r EXCEPT !.distance_traveled = @ + distance,
              !.lifetime_distance_traveled = @ + distance,
              !.current_life_distance_traveled = @ + distance]

OnLevelUp(r, skill, level, timestamp) ==
    [r EXCEPT !.level_ups =
        Append(@, [skill |-> skill, level |-> level, timestamp |-> timestamp])]

OnItemCrafted(r, item) ==
    [r EXCEPT !.items_crafted = Append(@, item),
              !.lifetime_items_crafted = Append(@, item),
              !.current_life_items_crafted = Append(@, item)]

\* a vehicle entry that also counts as a tile traveled
OnVehicleEntered_CountsDistance(r) ==
    [r EXCEPT !.vehicles_entered = @ + 1, !.distance_traveled = @ + 1]

OnVehicleEntered(r) == [r EXCEPT !.vehicles_entered = @ + 1]

OnBuildingPlaced(r, building) ==
    [r EXCEPT !.buildings_placed = Append(@, building),
              !.lifetime_buildings_placed = Append(@, building),
              !.current_life_buildings_placed = Append(@, building)]

\* The body of "if match:" for one pattern: st is the pair of locals
\* [player_stats, session_starts].
HandleEvent(st, event_type, l) ==
    LET username == l.username
        timestamp == ParseTimestamp(TimestampStr(event_type, l))
        ps == st.player_stats
        ss == st.session_starts
        r0 == IF Has(ps, username) THEN ps.val[username] ELSE InitialStats
        r1 == UpdateSeen(r0, timestamp)
        r2 == CASE event_type = "player_connect" -> OnConnect(r1, timestamp)
                [] event_type = "player_disconnect" -> OnDisconnect(r1, ss, username, timestamp)
                [] event_type = "zombie_killed" -> OnZombieKilled(r1)
                [] event_type = "player_death" -> OnDeath(r1, timestamp, ExtractDeathCause(l))
                [] event_type = "distance_traveled" -> OnDistance(r1, l.amount)
                [] event_type = "level_up" -> OnLevelUp(r1, l.label, l.amount, timestamp)
                [] event_type = "item_crafted" -> OnItemCrafted(r1, l.label)
                [] event_type = "vehicle_entered" -> OnVehicleEntered(r1)
                [] event_type = "building_placed" -> OnBuildingPlaced(r1, l.label)
        ss2 == CASE event_type = "player_connect" -> Set(ss, username, timestamp)
                 [] event_type = "player_disconnect"
                        /\ PairsSession(ss, username, timestamp) -> Del(ss, username)
                 [] OTHER -> ss
    IN  [player_stats |-> Put(ps, username, r2), session_starts |-> ss2]

\* "for event_type, pattern in self.compiled_patterns.items()", from pattern i on
RECURSIVE TryPatterns(_, _, _)
TryPatterns(st, l, i) ==
    IF i > Len(PATTERNS) THEN st
    ELSE TryPatterns(IF Matches(PATTERNS[i], l) THEN HandleEvent(st, PATTERNS[i], l) ELSE st,
                     l, i + 1)

\* one iteration of "for line in log_lines"
FoldLine(st, l) == TryPatterns(st, l, 1)

RECURSIVE FoldLines(_, _, _)
FoldLines(st, log_lines, i) ==
    IF i > Len(log_lines) THEN st
    ELSE FoldLines(FoldLine(st, log_lines[i]), log_lines, i + 1)

ParserInit == [player_stats |-> EmptyDict, session_starts |-> [u \in {} |-> None]]

\* parse_logs(log_lines): the dict it returns
ParseLogs(log_lines) == FoldLines(ParserInit, log_lines, 1).player_stats

\* ------------------------------------------------------------------ the lines fed in
ConnectLine(u, s) == MkLine("player_connect", u, s, 0, "", {})
DisconnectLine(u, s) == MkLine("player_disconnect", u, s, 0, "", {})
KillLine(u, s) == MkLine("zombie_killed", u, s, 0, "", {"zombie"})
DeathLine(u, s, kw) == MkLine("player_death", u, s, 0, "", kw)
DistanceLine(u, s, d) == MkLine("distance_traveled", u, s, d, "", {})
LevelUpLine(u, s, skill, level) == MkLine("level_up", u, s, level, skill, {})
CraftLine(u, s, item) == MkLine("item_crafted", u, s, 0, item, {})
VehicleLine(u, s) == MkLine("vehicle_entered", u, s, 0, "", {"vehicle"})
BuildLine(u, s, b) == MkLine("building_placed", u, s, 0, b, {})
JunkLine == MkLine("junk", "", NoStamp, 0, "", {})

GoodStamps == {Dmy(t) : t \in Times}

\* The lines of the first user: every event kind, with timestamps that
\* parse, that do not parse, and (where the pattern allows it) none.
BobLines ==
    {ConnectLine("Bob", s) : s \in GoodStamps \cup {BadStamp}}
    \cup {DisconnectLine("Bob", s) : s \in {NoStamp, Dmy(2)}}
    \cup {KillLine("Bob", s) : s \in GoodStamps \cup {NoStamp}}
    \cup {DeathLine("Bob", s, {}) : s \in GoodStamps \cup {BadStamp}}
    \cup {DeathLine("Bob", Dmy(2), {"fire", "zombie"})}
    \cup {DistanceLine("Bob", Dmy(1), 3), DistanceLine("Bob", Dmy(2), NotDigits)}
    \cup {LevelUpLine("Bob", s, "Axe", 2) : s \in {Dmy(1), BadStamp}}
    \cup {CraftLine("Bob", Dmy(1), "Plank")}
    \cup {VehicleLine("Bob", Dmy(1))}
    \cup {BuildLine("Bob", Ymd(1), "Wall")}

\* A second user, so that records of several players coexist.
AmyLines ==
    {ConnectLine("Amy", Dmy(1)), KillLine("Amy", Dmy(2)),
     DeathLine("Amy", Dmy(2), {}), LevelUpLine("Amy", Dmy(1), "Axe", 1)}

LogLines == BobLines \cup AmyLines \cup {JunkLine}

\* The event types whose pattern matches the line.
MatchedTypes(l) == {PATTERNS[i] : i \in {j \in 1..Len(PATTERNS) : Matches(PATTERNS[j], l)}}
\* The resolvable timestamps of the line's events.
MatchedTimes(l) ==
    {ParseTimestamp(TimestampStr(e, l)).v :
        e \in {x \in MatchedTypes(l) : Truthy(ParseTimestamp(TimestampStr(x, l)))}}
HasUnresolved(l) ==
    \E e \in MatchedTypes(l) : ~Truthy(ParseTimestamp(TimestampStr(e, l)))

\* ------------------------------------------------------------------ PlayerStatsTracker
MissingFile == [kind |-> "missing", data |-> EmptyDict]
CorruptFile == [kind |-> "corrupt", data |-> EmptyDict]
JsonFile(d) == [kind |-> "json", data |-> d]

\* _load_stats without the try/except around json.load
LoadOutcome_NoExcept(f) == IF f.kind = "corrupt" THEN "load_JSONDecodeError" ELSE "ok"

\* how _load_stats ends: it returns on each of its three paths
LoadOutcome(f) ==
    IF f.kind = "missing" THEN "ok"       \* os.path.exists is false: return {}
    ELSE IF f.kind = "json" THEN "ok"     \* return json.load(f)
    ELSE "ok"                             \* json.load raises: except: return {}

\* _load_stats: the decoded file, or {} when it is missing or json.load raises
LoadStats(f) == IF f.kind = "json" THEN f.data ELSE EmptyDict

\* "Convert level_up timestamps": done on the list that the copy shares with
\* self.stats (data.copy() is a shallow copy).
ConvertLevelUps(level_ups) ==
    [i \in 1..Len(level_ups) |->
        IF IsDatetime(level_ups[i].timestamp)
        THEN [level_ups[i] EXCEPT !.timestamp = IsoFormat(@)]
        ELSE level_ups[i]]

\* self.stats after the conversion loop of _save_stats
AfterConversion(st) ==
    [st EXCEPT !.val = [u \in DOMAIN st.val |->
        [st.val[u] EXCEPT !.level_ups = ConvertLevelUps(@)]]]

\* one entry of stats_copy
StatsCopyEntry(r) ==
    [r EXCEPT !.first_seen = IF IsDatetime(@) THEN IsoFormat(@) ELSE @,
              !.last_seen = IF IsDatetime(@) THEN IsoFormat(@) ELSE @,
              !.level_ups = ConvertLevelUps(@)]

StatsCopy(st) == [st EXCEPT !.val = [u \in DOMAIN st.val |-> StatsCopyEntry(st.val[u])]]

\* json.dump accepts None, str, int, float, list and dict, and raises
\* TypeError on a datetime.
JsonSerializable(r) ==
    /\ ~IsDatetime(r.first_seen)
    /\ ~IsDatetime(r.last_seen)
    /\ ~IsDatetime(r.current_life_start)
    /\ ~IsDatetime(r.last_death)
    /\ \A i \in 1..Len(r.death_timestamps) : ~IsDatetime(r.death_timestamps[i])
    /\ \A i \in 1..Len(r.level_ups) : ~IsDatetime(r.level_ups[i].timestamp)
    /\ \A i \in 1..Len(r.lives) : ~IsDatetime(r.lives[i].start) /\ ~IsDatetime(r.lives[i].end)

\* _save_stats: open(..., 'w') truncates the file, json.dump writes into it
\* and, when it raises, leaves an unfinished text behind.
SaveStats(st) ==
    LET copy == StatsCopy(st)
        ok == \A u \in DOMAIN copy.val : JsonSerializable(copy.val[u])
    IN  [stats |-> AfterConversion(st),
         file |-> IF ok THEN JsonFile(copy) ELSE CorruptFile,
         outcome |-> IF ok THEN "ok" ELSE "save_TypeError"]

\* "<" and ">" between the batch's datetime and the stored value raise
\* TypeError when the stored value is a str.
Comparable(a, b) == a.tag = b.tag

\* MergeCounts with "=" in place of "+=" for connections
MergeCounts_Overwrite(existing, new_stats) ==
    [existing EXCEPT
        !.connections = new_stats.connections,
        !.disconnections = @ + new_stats.disconnections,
        !.zombies_killed = @ + new_stats.zombies_killed,
        !.deaths = @ + new_stats.deaths,
        !.distance_traveled = @ + new_stats.distance_traveled,
        !.vehicles_entered = @ + new_stats.vehicles_entered,
        !.death_causes = @ \o new_stats.death_causes,
        !.level_ups = @ \o new_stats.level_ups,
        !.items_crafted = @ \o new_stats.items_crafted,
        !.buildings_placed = @ \o new_stats.buildings_placed,
        !.session_times = @ \o new_stats.session_times]

\* "Merge stats (accumulate counts, append lists)"
\* MergeCounts with the batch's lists put before the stored ones
MergeCounts_Prepends(existing, new_stats) ==
    [existing EXCEPT
        !.connections = @ + new_stats.connections,
        !.disconnections = @ + new_stats.disconnections,
        !.zombies_killed = @ + new_stats.zombies_killed,
        !.deaths = @ + new_stats.deaths,
        !.distance_traveled = @ + new_stats.distance_traveled,
        !.vehicles_entered = @ + new_stats.vehicles_entered,
        !.death_causes = new_stats.death_causes \o @,
        !.level_ups = new_stats.level_ups \o @,
        !.items_crafted = new_stats.items_crafted \o @,
        !.buildings_placed = new_stats.buildings_placed \o @,
        !.session_times = new_stats.session_times \o @]

\* MergeCounts without the extension of death_causes
MergeCounts_DropsCauses(existing, new_stats) ==
    [existing EXCEPT
        !.connections = @ + new_stats.connections,
        !.disconnections = @ + new_stats.disconnections,
        !.zombies_killed = @ + new_stats.zombies_killed,
        !.deaths = @ + new_stats.deaths,
        !.distance_traveled = @ + new_stats.distance_traveled,
        !.vehicles_entered = @ + new_stats.vehicles_entered,
        !.level_ups = @ \o new_stats.level_ups,
        !.items_crafted = @ \o new_stats.items_crafted,
        !.buildings_placed = @ \o new_stats.buildings_placed,
        !.session_times = @ \o new_stats.session_times]

MergeCounts(existing, new_stats) ==
    [existing EXCEPT
        !.connections = @ + new_stats.connections,
        !.disconnections = @ + new_stats.disconnections,
        !.zombies_killed = @ + new_stats.zombies_killed,
        !.deaths = @ + new_stats.deaths,
        !.distance_traveled = @ + new_stats.distance_traveled,
        !.vehicles_entered = @ + new_stats.vehicles_entered,
        !.death_causes = @ \o new_stats.death_causes,
        !.level_ups = @ \o new_stats.level_ups,
        !.items_crafted = @ \o new_stats.items_crafted,
        !.buildings_placed = @ \o new_stats.buildings_placed,
        !.session_times = @ \o new_stats.session_times]

\* The else branch of the merge loop for one username: the record it leaves
\* and whether it raised.
MergeOne(existing, new_stats) ==
    LET r1 == MergeCounts(existing, new_stats)
        cmpFirst == Truthy(new_stats.first_seen) /\ Truthy(r1.first_seen)
        raiseFirst == cmpFirst /\ ~Comparable(new_stats.first_seen, r1.first_seen)
        r2 == IF Truthy(new_stats.first_seen)
                 /\ (~Truthy(r1.first_seen) \/ new_stats.first_seen.v < r1.first_seen.v)
              THEN [r1 EXCEPT !.first_seen = new_stats.first_seen]
              ELSE r1
        cmpLast == Truthy(new_stats.last_seen) /\ Truthy(r2.last_seen)
        raiseLast == cmpLast /\ ~Comparable(new_stats.last_seen, r2.last_seen)
        r3 == IF Truthy(new_stats.last_seen)
                 /\ (~Truthy(r2.last_seen) \/ new_stats.last_seen.v > r2.last_seen.v)
              THEN [r2 EXCEPT !.last_seen = new_stats.last_seen]
              ELSE r2
    IN  IF raiseFirst THEN [rec |-> r1, raised |-> TRUE]
        ELSE IF raiseLast THEN [rec |-> r2, raised |-> TRUE]
        ELSE [rec |-> r3, raised |-> FALSE]

\* "for username, new_stats in parsed_stats.items()", from key i on
RECURSIVE MergeLoop(_, _, _)
MergeLoop(st, parsed_stats, i) ==
    IF i > Len(parsed_stats.keys) THEN [stats |-> st, raised |-> FALSE]
    ELSE LET username == parsed_stats.keys[i]
             new_stats == parsed_stats.val[username]
         IN  IF ~Has(st, username)
             THEN MergeLoop(Put(st, username, new_stats), parsed_stats, i + 1)
             ELSE LET m == MergeOne(st.val[username], new_stats)
                  IN  IF m.raised
                      THEN [stats |-> Put(st, username, m.rec), raised |-> TRUE]
                      ELSE MergeLoop(Put(st, username, m.rec), parsed_stats, i + 1)

\* update_from_logs(log_lines) on a tracker whose mapping is st and whose
\* file is f: the mapping and the file it leaves, and how it ended.
UpdateFromLogs(st, f, log_lines) ==
    LET merged == MergeLoop(st, ParseLogs(log_lines), 1)
        saved == SaveStats(merged.stats)
    IN  IF merged.raised
        THEN [stats |-> merged.stats, file |-> f, outcome |-> "merge_TypeError"]
        ELSE saved

\* ------------------------------------------------------------------ ParseSpec
NoQuery == [name |-> "none"]
NoAnswer == [kind |-> "none"]

AskIdle ==
    /\ script = <<>>
    /\ query = NoQuery
    /\ answer = NoAnswer
    /\ asked = 0

ParseInitStore ==
    /\ stats = EmptyDict
    /\ file = MissingFile
    /\ op = "init"
    /\ batch = <<>>
    /\ outcome = "ok"
    /\ ingested = <<>>
    /\ inserted = {}
    /\ reloaded = FALSE

ParseInit ==
    /\ player_stats = EmptyDict
    /\ session_starts = [u \in {} |-> None]
    /\ line = NoLine
    /\ nlines = 0
    /\ unresolved = FALSE
    /\ ParseInitStore
    /\ AskIdle

\* one iteration of the loop over log_lines
ParseLine ==
    /\ nlines < MaxBatch
    /\ \E l \in LogLines :
        \E st \in {FoldLine([player_stats |-> player_stats,
                              session_starts |-> session_starts], l)} :
            /\ player_stats' = st.player_stats
            /\ session_starts' = st.session_starts
            /\ line' = l
            /\ unresolved' = (unresolved \/ HasUnresolved(l))
    /\ nlines' = nlines + 1
    /\ UNCHANGED <<storeVars, askVars>>

ParseNext == ParseLine

ParseSpec == ParseInit /\ [][ParseNext]_vars

\* ------------------------------------------------------------------ Spec
\* the batches a call can be given when n lines are still to come
RECURSIVE Batches(_)
Batches(n) ==
    IF n = 0 THEN {<<>>}
    ELSE LET shorter == Batches(n - 1)
         IN  shorter \cup {Append(b, l) : b \in {x \in shorter : Len(x) = n - 1}, l \in LogLines}

Init ==
    /\ player_stats = EmptyDict
    /\ session_starts = [u \in {} |-> None]
    /\ line = NoLine
    /\ nlines = 0
    /\ unresolved = FALSE
    /\ stats = LoadStats(MissingFile)
    /\ file = MissingFile
    /\ op = "init"
    /\ batch = <<>>
    /\ outcome = "ok"
    /\ ingested = <<>>
    /\ inserted = {}
    /\ reloaded = FALSE
    /\ AskIdle

\* PlayerStatsTracker.update_from_logs(log_lines)
Update ==
    /\ \E log_lines \in Batches(MaxLines - Len(ingested)) :
        \E r \in {UpdateFromLogs(stats, file, log_lines)} :
            /\ stats' = r.stats
            /\ file' = r.file
            /\ outcome' = r.outcome
            /\ batch' = log_lines
            /\ ingested' = ingested \o log_lines
            /\ inserted' = (DOMAIN r.stats.val) \ (DOMAIN stats.val)
    /\ op' = "update"
    /\ UNCHANGED <<reloaded, parseVars, askVars>>

\* The process ends and a new one starts: PlayerStatsTracker.__init__
Restart ==
    /\ stats' = LoadStats(file)
    /\ op' = "restart"
    /\ batch' = <<>>
    /\ outcome' = LoadOutcome(file)
    /\ inserted' = {}
    /\ reloaded' = TRUE
    /\ UNCHANGED <<file, ingested, parseVars, askVars>>

Next == Update \/ Restart

Spec == Init /\ [][Next]_vars

\* ------------------------------------------------------------------ EndToEndSpec
\* kill lines in the sequence
MaxKills == 3

ConnectStamps == GoodStamps \cup {Ymd(t) : t \in Times}

\* A connect line of user u with a timestamp, k kill lines and a death line
\* without the bracketed timestamp, and the disconnect line.
Script(u, s, k) ==
    <<ConnectLine(u, s)>> \o [i \in 1..k |-> KillLine(u, NoStamp)]
        \o <<DeathLine(u, NoStamp, {}), DisconnectLine(u, NoStamp)>>

Scripts == {Script(u, s, k) : u \in Users, s \in ConnectStamps, k \in 0..MaxKills}

EndToEndInit ==
    /\ player_stats = EmptyDict
    /\ session_starts = [u \in {} |-> None]
    /\ line = NoLine
    /\ nlines = 0
    /\ unresolved = FALSE
    /\ ParseInitStore
    /\ script \in Scripts
    /\ query = NoQuery
    /\ answer = NoAnswer
    /\ asked = 0

\* one iteration of the loop over log_lines, on the next line of the script
EndToEndLine ==
    /\ nlines < Len(script)
    /\ \E st \in {FoldLine([player_stats |-> player_stats,
                             session_starts |-> session_starts], script[nlines + 1])} :
        /\ player_stats' = st.player_stats
        /\ session_starts' = st.session_starts
        /\ line' = script[nlines + 1]
        /\ unresolved' = (unresolved \/ HasUnresolved(script[nlines + 1]))
    /\ nlines' = nlines + 1
    /\ UNCHANGED <<storeVars, askVars>>

EndToEndSpec == EndToEndInit /\ [][EndToEndLine]_vars

\* ------------------------------------------------------------------ CauseSpec
\* Words a death line may contain besides the pattern's own, in the
\* spelling of the line; "bitten" is no keyword of the cause table.
CauseWords ==
    {"Zombie", "STARVATION", "dehydration", "Bleeding", "infection", "Fall",
     "FIRE", "Vehicle", "bitten"}

\* parse_logs called with one death line
CauseInit ==
    /\ player_stats = EmptyDict
    /\ session_starts = [u \in {} |-> None]
    /\ line = NoLine
    /\ nlines = 0
    /\ unresolved = FALSE
    /\ ParseInitStore
    /\ \E keywords \in SUBSET CauseWords : script = <<DeathLine("Bob", Dmy(1), keywords)>>
    /\ query = NoQuery
    /\ answer = NoAnswer
    /\ asked = 0

CauseSpec == CauseInit /\ [][EndToEndLine]_vars

\* ------------------------------------------------------------------ LifeSpec
\* lines of the batch
LifeLen == 4

\* Connects and Deaths of one player, with timestamps in either order and a
\* Death whose bracketed timestamp fits neither format.
LifeLines ==
    {ConnectLine("Bob", Dmy(t)) : t \in Times}
    \cup {DeathLine("Bob", Dmy(t), {}) : t \in Times}
    \cup {DeathLine("Bob", BadStamp, {})}

\* parse_logs called with a batch of LifeLen such lines
LifeInit ==
    /\ player_stats = EmptyDict
    /\ session_starts = [u \in {} |-> None]
    /\ line = NoLine
    /\ nlines = 0
    /\ unresolved = FALSE
    /\ ParseInitStore
    /\ script \in [1..LifeLen -> LifeLines]
    /\ query = NoQuery
    /\ answer = NoAnswer
    /\ asked = 0

LifeSpec == LifeInit /\ [][EndToEndLine]_vars

\* ------------------------------------------------------------------ analytics
\* A Python number (int or float) as an exact fraction with den > 0.
Num(n) == [num |-> n, den |-> 1]
\* a / b with "/" the true division, for b > 0
TrueDiv(a, b) == [num |-> a.num, den |-> a.den * b]
NumLess(x, y) == x.num * y.den < y.num * x.den
NumEq(x, y) == x.num * y.den = y.num * x.den
\* min(1.0, x)
MinOne(x) == IF NumLess(Num(1), x) THEN Num(1) ELSE x

\* player_stats.items(): the (username, record) pairs in the order of the dict
Items(d) == [i \in 1..Len(d.keys) |-> <<d.keys[i], d.val[d.keys[i]]>>]

RECURSIVE PySum(_, _)
\* sum(q), from element i on
PySum(q, i) == IF i > Len(q) THEN 0 ELSE q[i] + PySum(q, i + 1)

\* calculate_playstyle_profile with the 'Regular Player' test made first
ProfileOf_RegularFirst(r) ==
    IF r.connections > 10 THEN "Regular Player"
    ELSE IF r.zombies_killed > 50 /\ 10 * r.zombies_killed > r.distance_traveled
    THEN "Combat-Focused Fighter"
    ELSE IF r.distance_traveled > 1000 /\ r.distance_traveled > r.zombies_killed * 10
    THEN "Explorer/Looter"
    ELSE IF Len(r.buildings_placed) > 20 \/ Len(r.items_crafted) > 50
    THEN "Builder/Crafter"
    ELSE IF r.deaths > 5 THEN "High-Risk Player"
    ELSE "Casual Survivor"

\* The if/elif chain of calculate_playstyle_profile for one player.
\* zombies_killed > distance / 10 is, for ints, 10 * zombies_killed > distance.
ProfileOf(r) ==
    LET zombies_killed == r.zombies_killed
        distance == r.distance_traveled
        buildings == Len(r.buildings_placed)
        crafts == Len(r.items_crafted)
        deaths == r.deaths
    IN  IF zombies_killed > 50 /\ 10 * zombies_killed > distance
        THEN "Combat-Focused Fighter"
        ELSE IF distance > 1000 /\ distance > zombies_killed * 10
        THEN "Explorer/Looter"
        ELSE IF buildings > 20 \/ crafts > 50
        THEN "Builder/Crafter"
        ELSE IF deaths > 5
        THEN "High-Risk Player"
        ELSE IF r.connections > 10
        THEN "Regular Player"
        ELSE "Casual Survivor"

\* calculate_playstyle_profile(player_stats): username -> label
CalculatePlaystyleProfile(d) == [u \in DOMAIN d.val |-> ProfileOf(d.val[u])]

\* a sort that puts an entry before the entries of equal value
InsertDesc_BeforeEquals(q, e) ==
    LET not_larger == {i \in 1..Len(q) : ~NumLess(e[2], q[i][2])}
        at == IF not_larger = {} THEN Len(q) + 1
              ELSE CHOOSE i \in not_larger : \A j \in not_larger : i <= j
    IN  SubSeq(q, 1, at - 1) \o <<e>> \o SubSeq(q, at, Len(q))

\* Where sorted(..., reverse=True) puts entry e among the entries q already
\* in place: before the first one of smaller value, so after its equals.
InsertDesc(q, e) ==
    LET smaller == {i \in 1..Len(q) : NumLess(q[i][2], e[2])}
        at == IF smaller = {} THEN Len(q) + 1
              ELSE CHOOSE i \in smaller : \A j \in smaller : i <= j
    IN  SubSeq(q, 1, at - 1) \o <<e>> \o SubSeq(q, at, Len(q))

RECURSIVE SortFrom(_, _, _)
SortFrom(q, i, done) ==
    IF i > Len(q) THEN done ELSE SortFrom(q, i + 1, InsertDesc(done, q[i]))

\* sorted(q, key=lambda x: x[1], reverse=True): stable, largest value first
SortedDesc(q) == SortFrom(q, 1, <<>>)

\* the duration of the life closed last
LongestDuration_Last(lives) == lives[Len(lives)].duration

\* max(lives, key=lambda x: x['duration'])['duration']
LongestDuration(lives) ==
    LET ds == {lives[i].duration : i \in 1..Len(lives)}
    IN  CHOOSE m \in ds : \A x \in ds : x <= m

\* (datetime.now() - start).total_seconds()
SecondsSince(now, start) == now - start.v

\* "deaths = stats['deaths'] if stats['deaths'] > 0 else 1" left out
KdRatio_NoFloor(r) == [num |-> r.zombies_killed, den |-> r.deaths]

\* the ratio zombies_killed / deaths, with deaths replaced by 1 when it is 0
KdRatio(r) ==
    LET deaths == IF r.deaths > 0 THEN r.deaths ELSE 1
    IN  TrueDiv(Num(r.zombies_killed), deaths)

\* The (username, value) list of each category before it is sorted.
BoardEntries(d, category, now) ==
    LET items == Items(d)
        Each(Value(_)) == [i \in 1..Len(items) |-> <<items[i][1], Value(items[i][2])>>]
        ByKills(r) == Num(r.zombies_killed)
        ByDistance(r) == Num(r.distance_traveled)
        ByBuildings(r) == Num(Len(r.buildings_placed))
        ByCrafts(r) == Num(Len(r.items_crafted))
        ByPlaytime(r) == Num(PySum(r.session_times, 1))
        ByDeaths(r) == Num(r.deaths)
        HasLife(it) == it[2].lives # <<>> \/ Truthy(it[2].current_life_start)
        Longest(r) == IF r.lives # <<>> THEN Num(LongestDuration(r.lives))
                      ELSE Num(SecondsSince(now, r.current_life_start))
        Alive(it) == Truthy(it[2].current_life_start)
        Current(r) == Num(SecondsSince(now, r.current_life_start))
        with_life == SelectSeq(items, HasLife)
        alive == SelectSeq(items, Alive)
    IN  CASE category = "zombies_killed" -> Each(ByKills)
          [] category = "distance_traveled" -> Each(ByDistance)
          [] category = "buildings_placed" -> Each(ByBuildings)
          [] category = "items_crafted" -> Each(ByCrafts)
          [] category = "total_playtime" -> Each(ByPlaytime)
          [] category = "longest_life" ->
                [i \in 1..Len(with_life) |-> <<with_life[i][1], Longest(with_life[i][2])>>]
          [] category = "current_life_duration" ->
                [i \in 1..Len(alive) |-> <<alive[i][1], Current(alive[i][2])>>]
          [] category = "kill_death_ratio" -> Each(KdRatio)
          [] category = "most_deaths" -> Each(ByDeaths)

\* the keys of the dict get_leaderboards returns
Categories ==
    {"zombies_killed", "distance_traveled", "buildings_placed", "items_crafted",
     "total_playtime", "longest_life", "current_life_duration",
     "kill_death_ratio", "most_deaths"}

\* get_leaderboards(player_stats), with now the value of datetime.now()
GetLeaderboards(d, now) == [c \in Categories |-> SortedDesc(BoardEntries(d, c, now))]

\* q[:n]
Slice(q, n) ==
    IF n >= 0 THEN SubSeq(q, 1, IF n < Len(q) THEN n ELSE Len(q))
    ELSE SubSeq(q, 1, Len(q) + n)

\* A text returned to the caller, by its fixed wording (head), the value put
\* into it (arg) and the entries listed under it (rows).
Text(head, arg, rows) == [head |-> head, arg |-> arg, rows |-> rows]

\* PlayerStatsTracker.format_leaderboard(category, top_n)
FormatLeaderboard(d, category, top_n, now) ==
    LET leaderboards == GetLeaderboards(d, now)
    IN  IF category \notin DOMAIN leaderboards
        THEN Text("Unknown leaderboard category", category, <<>>)
        ELSE Text("title", category, Slice(leaderboards[category], top_n))

\* LogParser.format_player_stats(username, stats): the counters it prints
PlayerStatsText(username, r) ==
    Text("Statistics", username,
         << <<"Current Life Zombies Killed", r.current_life_zombies_killed>>,
            <<"Current Life Distance Traveled", r.current_life_distance_traveled>>,
            <<"Current Life Items Crafted", Len(r.current_life_items_crafted)>>,
            <<"Current Life Buildings Placed", Len(r.current_life_buildings_placed)>>,
            <<"Lifetime Zombies Killed", r.lifetime_zombies_killed>>,
            <<"Lifetime Distance Traveled", r.lifetime_distance_traveled>>,
            <<"Deaths", r.deaths>>,
            <<"Lifetime Items Crafted", Len(r.lifetime_items_crafted)>>,
            <<"Lifetime Buildings Placed", Len(r.lifetime_buildings_placed)>>,
            <<"Vehicles Used", r.vehicles_entered>>,
            <<"Sessions", r.connections>> >>)

\* what format_player_stats returns for a username without record
NoText == Text("None", "", <<>>)

\* PlayerStatsTracker.format_player_stats(username): self.stats.get(username)
\* is None for a username without record, and a record is never an empty dict
FormatPlayerStats(d, username) ==
    IF ~Has(d, username) THEN NoText ELSE PlayerStatsText(username, d.val[username])

\* the scores without min(1.0, ...)
AnalyzeForModRecommendations_NoCap(d) ==
    LET items == Items(d)
        Total(Value(_)) == PySum([i \in 1..Len(items) |-> Value(items[i][2])], 1)
        Kills(r) == r.zombies_killed
        Builds(r) == Len(r.buildings_placed)
        Crafts(r) == Len(r.items_crafted)
        Distance(r) == r.distance_traveled
        Vehicles(r) == r.vehicles_entered
        Deaths(r) == r.deaths
        num_players == Len(d.keys)
    IN  IF d.keys = <<>> THEN [c \in {} |-> Num(0)]
        ELSE [combat |-> TrueDiv(TrueDiv(Num(Total(Kills)), num_players), 100),
              building |-> TrueDiv(TrueDiv(Num(Total(Builds)), num_players), 50),
              crafting |-> TrueDiv(TrueDiv(Num(Total(Crafts)), num_players), 100),
              vehicles |-> TrueDiv(Num(Total(Vehicles)), num_players * 10),
              exploration |-> TrueDiv(Num(Total(Distance)), num_players * 1000),
              difficulty |-> TrueDiv(Num(Total(Deaths)), num_players * 3)]

\* PlayerStatsTracker.analyze_for_mod_recommendations()
AnalyzeForModRecommendations(d) ==
    LET items == Items(d)
        Total(Value(_)) == PySum([i \in 1..Len(items) |-> Value(items[i][2])], 1)
        Kills(r) == r.zombies_killed
        Builds(r) == Len(r.buildings_placed)
        Crafts(r) == Len(r.items_crafted)
        Distance(r) == r.distance_traveled
        Vehicles(r) == r.vehicles_entered
        Deaths(r) == r.deaths
        total_zombies == Total(Kills)
        total_buildings == Total(Builds)
        total_crafts == Total(Crafts)
        total_distance == Total(Distance)
        total_vehicles == Total(Vehicles)
        total_deaths == Total(Deaths)
        num_players == Len(d.keys)
        avg_zombies == TrueDiv(Num(total_zombies), num_players)
        avg_buildings == TrueDiv(Num(total_buildings), num_players)
        avg_crafts == TrueDiv(Num(total_crafts), num_players)
    IN  IF d.keys = <<>> THEN [c \in {} |-> Num(0)]
        ELSE [combat |-> MinOne(TrueDiv(avg_zombies, 100)),
              building |-> MinOne(TrueDiv(avg_buildings, 50)),
              crafting |-> MinOne(TrueDiv(avg_crafts, 100)),
              vehicles |-> MinOne(TrueDiv(Num(total_vehicles), num_players * 10)),
              exploration |-> MinOne(TrueDiv(Num(total_distance), num_players * 1000)),
              difficulty |-> MinOne(TrueDiv(Num(total_deaths), num_players * 3))]

\* a lookup that, as the subscript of a defaultdict does, puts a record in
\* for a username without one
GetPlayerStats_Defaultdict(d, username) ==
    [stats |-> IF Has(d, username) THEN d ELSE Put(d, username, InitialStats),
     value |-> IF Has(d, username) THEN d.val[username] ELSE InitialStats]

\* PlayerStatsTracker.get_player_stats(username): self.stats.get(username)
\* gives the record or None; stats is the mapping the lookup leaves.
GetPlayerStats(d, username) ==
    [stats |-> d,
     value |-> IF Has(d, username) THEN d.val[username] ELSE None]

RECURSIVE CountFrom(_, _, _)
CountFrom(q, i, done) ==
    IF i > Len(q) THEN done
    ELSE LET at == {j \in 1..Len(done) : done[j][1] = q[i]}
         IN  CountFrom(q, i + 1,
                 IF at = {} THEN Append(done, <<q[i], 1>>)
                 ELSE [done EXCEPT ![CHOOSE j \in at : TRUE][2] = @ + 1])

\* Counter(q): the distinct elements of q in the order of their first
\* occurrence, each with the number of its occurrences
Counter(q) == CountFrom(q, 1, <<>>)

\* the elements of a Counter as they were first counted
MostCommon_Unsorted(c) == c

\* Counter.most_common(): sorted(self.items(), key=itemgetter(1), reverse=True)
MostCommon(c) ==
    LET sorted == SortedDesc([i \in 1..Len(c) |-> <<c[i][1], Num(c[i][2])>>])
    IN  [i \in 1..Len(sorted) |-> <<sorted[i][1], sorted[i][2].num>>]

\* PlayerStatsTracker.get_server_summary(): the totals it prints (the
\* playtime in seconds, printed as hours) and the playstyle lines under them
GetServerSummary(d) ==
    LET values == [i \in 1..Len(d.keys) |-> d.val[d.keys[i]]]
        Total(Value(_)) == PySum([i \in 1..Len(values) |-> Value(values[i])], 1)
        Kills(s) == s.zombies_killed
        Deaths(s) == s.deaths
        Distance(s) == s.distance_traveled
        Playtime(s) == PySum(s.session_times, 1)
        profiles == CalculatePlaystyleProfile(d)
        profile_counts == Counter([i \in 1..Len(d.keys) |-> profiles[d.keys[i]]])
    IN  IF d.keys = <<>>
        THEN Text("No player statistics available yet.", "", <<>>)
        ELSE Text("Server Statistics Summary",
                  [total_players |-> Len(d.keys),
                   total_zombies |-> Total(Kills),
                   total_deaths |-> Total(Deaths),
                   total_distance |-> Total(Distance),
                   total_playtime |-> Total(Playtime)],
                  MostCommon(profile_counts))

\* "if recent_logs: self.player_stats.update_from_logs(recent_logs)" of the
\* tool handlers; get_recent_logs gives None when the read fails
Refresh(d, f, recent_logs) ==
    IF recent_logs # <<>> THEN UpdateFromLogs(d, f, recent_logs)
    ELSE [stats |-> d, file |-> f, outcome |-> "ok"]

\* The get_player_stats tool (execute_tools) after the refresh r: the
\* mapping and the file it leaves, how the refresh ended, and the result
\* appended.
PlayerStatsToolAfter(r, username) ==
    LET stats_text == FormatPlayerStats(r.stats, username)
        all_stats == r.stats
        result ==
            IF r.outcome # "ok"
            THEN Text("Error executing get_player_stats", r.outcome, <<>>)
            ELSE IF stats_text # NoText THEN stats_text
            ELSE IF all_stats.keys = <<>>
            THEN Text("No player statistics available yet", "", <<>>)
            ELSE Text("No statistics found for player", username, all_stats.keys)
    IN  [stats |-> r.stats, file |-> r.file, outcome |-> r.outcome, result |-> result]

\* The get_player_stats tool (execute_tools).
PlayerStatsTool(d, f, username, recent_logs) ==
    PlayerStatsToolAfter(Refresh(d, f, recent_logs), username)

\* The get_leaderboard tool (execute_tools) after the refresh r.
LeaderboardToolAfter(r, category, top_n, now) ==
    LET leaderboards == GetLeaderboards(r.stats, now)
        top_entries == Slice(leaderboards[category], top_n)
        result ==
            IF r.outcome # "ok"
            THEN Text("Error executing get_leaderboard", r.outcome, <<>>)
            ELSE IF category \in DOMAIN leaderboards
            THEN IF top_entries = <<>>
                 THEN Text("No player data available for leaderboard", category, <<>>)
                 ELSE Text("Leaderboard (Top n)", category, top_entries)
            ELSE Text("Invalid leaderboard category", category, <<>>)
    IN  [stats |-> r.stats, file |-> r.file, outcome |-> r.outcome, result |-> result]

\* The get_leaderboard tool (execute_tools).
LeaderboardTool(d, f, category, top_n, recent_logs, now) ==
    LeaderboardToolAfter(Refresh(d, f, recent_logs), category, top_n, now)

\* ------------------------------------------------------------------ QuerySpec
\* queries asked in one behaviour
MaxAsked == 1

Repeat(l, n) == [i \in 1..n |-> l]

\* The log lines that give user u, at time t, the activity p: kills, one
\* distance line, crafts, builds, vehicles, connects, and deaths one second
\* later.
History(u, t, p) ==
    Repeat(KillLine(u, Dmy(t)), p.kills)
        \o (IF p.distance > 0 THEN <<DistanceLine(u, Dmy(t), p.distance)>> ELSE <<>>)
        \o Repeat(CraftLine(u, Dmy(t), "Plank"), p.crafts)
        \o Repeat(BuildLine(u, Dmy(t), "Wall"), p.builds)
        \o Repeat(VehicleLine(u, Dmy(t)), p.vehicles)
        \o Repeat(ConnectLine(u, Dmy(t)), p.connects)
        \o Repeat(DeathLine(u, Dmy(t + 1), {}), p.deaths)

\* Activities of a single player on both sides of every playstyle threshold.
SoloActivities ==
    [kills : {0, 50, 60}, distance : {200, 600, 1001}, crafts : {0, 51},
     builds : {0, 20, 21}, vehicles : {0}, connects : {0, 10, 15}, deaths : {0, 5, 6}]

\* Activities of players that share a store, with equal and unequal values.
DuoActivities ==
    {[kills |-> 0, distance |-> 0, crafts |-> 0, builds |-> 0, vehicles |-> 0,
      connects |-> 1, deaths |-> 0],
     [kills |-> 5, distance |-> 40, crafts |-> 1, builds |-> 0, vehicles |-> 11,
      connects |-> 0, deaths |-> 0],
     [kills |-> 5, distance |-> 40, crafts |-> 0, builds |-> 1, vehicles |-> 25,
      connects |-> 1, deaths |-> 2],
     [kills |-> 9, distance |-> 2500, crafts |-> 0, builds |-> 0, vehicles |-> 0,
      connects |-> 0, deaths |-> 4]}

\* The record parse_logs returns for the lines History(u, t, p): the legacy
\* and lifetime counters hold the whole activity; the first death closes
\* the life the first connect opened (if any) and takes the current-life
\* counters with it, each later death closes an empty life of no duration.
Played(t, p) ==
    LET died == p.deaths > 0
        seen == p.kills + p.distance + p.crafts + p.builds + p.vehicles + p.connects > 0
        crafted == Repeat("Plank", p.crafts)
        built == Repeat("Wall", p.builds)
        first_life ==
            [start |-> Datetime(t), end |-> Datetime(t + 1), duration |-> 1,
             zombies_killed |-> p.kills, distance_traveled |-> p.distance,
             items_crafted |-> p.crafts, buildings_placed |-> p.builds,
             death_cause |-> "Unknown"]
        empty_life ==
            [start |-> Datetime(t + 1), end |-> Datetime(t + 1), duration |-> 0,
             zombies_killed |-> 0, distance_traveled |-> 0,
             items_crafted |-> 0, buildings_placed |-> 0,
             death_cause |-> "Unknown"]
    IN  [InitialStats EXCEPT
            !.zombies_killed = p.kills,
            !.lifetime_zombies_killed = p.kills,
            !.current_life_zombies_killed = IF died THEN 0 ELSE p.kills,
            !.distance_traveled = p.distance,
            !.lifetime_distance_traveled = p.distance,
            !.current_life_distance_traveled = IF died THEN 0 ELSE p.distance,
            !.items_crafted = crafted,
            !.lifetime_items_crafted = crafted,
            !.current_life_items_crafted = IF died THEN <<>> ELSE crafted,
            !.buildings_placed = built,
            !.lifetime_buildings_placed = built,
            !.current_life_buildings_placed = IF died THEN <<>> ELSE built,
            !.vehicles_entered = p.vehicles,
            !.connections = p.connects,
            !.current_life_start = IF died THEN Datetime(t + 1)
                                   ELSE IF p.connects > 0 THEN Datetime(t) ELSE None,
            !.deaths = p.deaths,
            !.death_causes = Repeat("Unknown", p.deaths),
            !.death_timestamps = Repeat(Datetime(t + 1), p.deaths),
            !.last_death = IF died THEN Datetime(t + 1) ELSE None,
            !.first_seen = IF seen THEN Datetime(t)
                           ELSE IF died THEN Datetime(t + 1) ELSE None,
            !.last_seen = IF died THEN Datetime(t + 1)
                          ELSE IF seen THEN Datetime(t) ELSE None,
            !.lives = IF ~died THEN <<>>
                      ELSE IF p.connects > 0
                      THEN <<first_life>> \o Repeat(empty_life, p.deaths - 1)
                      ELSE Repeat(empty_life, p.deaths - 1)]

\* The mappings parse_logs returns for the history of one player,
SoloHistories == {Put(EmptyDict, "Bob", Played(1, p)) : p \in SoloActivities}

\* and for no line, and for the histories of two players, in either order.
DuoHistories ==
    {EmptyDict}
    \cup {Put(Put(EmptyDict, o[1], Played(1, p)), o[2], Played(1, q)) :
             o \in {<<"Bob", "Amy">>, <<"Amy", "Bob">>},
             p \in DuoActivities, q \in DuoActivities}

\* and for the histories of three players, casual survivors or explorers,
\* the second and the third with the same activity.
TrioActivities ==
    {p \in DuoActivities : p.connects = 0 /\ p.deaths \in {0, 4}}
TrioHistories ==
    {Put(Put(Put(EmptyDict, "Bob", Played(1, p)), "Amy", Played(1, q)), "Cat", Played(1, q)) :
        p \in TrioActivities, q \in TrioActivities}

\* what get_recent_logs gives a tool call
RecentLogs ==
    {<<>>, <<KillLine("Bob", Dmy(2))>>,
     <<ConnectLine("Amy", Dmy(2)), DeathLine("Amy", BadStamp, {})>>,
     <<CraftLine("Bob", Dmy(2), " "), LevelUpLine("Bob", Dmy(2), "Axe", 2),
       CraftLine("Bob", Dmy(2), "Plank")>>}
\* the values of datetime.now()
Nows == {2, 3}
\* the category, top_n and username arguments of the queries
AskedCategories == Categories \cup {"not_a_real_category"}
TopNs == {1, 10}
AskedUsers == Users \cup {"Zed"}

\* The tracker after a first update_from_logs call whose lines parse_logs
\* turned into one of the mappings given (batch and ingested hold the lines
\* given after it).
TrackerAfter(parsed) ==
    /\ player_stats = EmptyDict
    /\ session_starts = [u \in {} |-> None]
    /\ line = NoLine
    /\ nlines = 0
    /\ unresolved = FALSE
    /\ \E parsed_stats \in parsed :
        \E r \in {SaveStats(MergeLoop(LoadStats(MissingFile), parsed_stats, 1).stats)} :
            /\ stats = r.stats
            /\ file = r.file
            /\ outcome = r.outcome
            /\ inserted = DOMAIN r.stats.val
    /\ batch = <<>>
    /\ ingested = <<>>
    /\ op = "update"
    /\ reloaded = FALSE
    /\ AskIdle

QueryInit == TrackerAfter(DuoHistories \cup TrioHistories)

\* PlayerStatsTracker.get_playstyle_profiles()
GetPlaystyleProfilesQuery ==
    /\ asked < MaxAsked
    /\ asked' = asked + 1
    /\ query' = [name |-> "get_playstyle_profiles"]
    /\ answer' = CalculatePlaystyleProfile(stats)
    /\ UNCHANGED <<storeVars, parseVars, script>>

\* PlayerStatsTracker.get_leaderboards()
GetLeaderboardsQuery ==
    /\ asked < MaxAsked
    /\ asked' = asked + 1
    /\ \E now \in Nows :
        /\ query' = [name |-> "get_leaderboards", now |-> now]
        /\ answer' = GetLeaderboards(stats, now)
    /\ UNCHANGED <<storeVars, parseVars, script>>

\* PlayerStatsTracker.format_leaderboard(category, top_n)
FormatLeaderboardQuery ==
    /\ asked < MaxAsked
    /\ asked' = asked + 1
    /\ \E category \in AskedCategories, top_n \in TopNs, now \in Nows :
        /\ query' = [name |-> "format_leaderboard", category |-> category, top_n |-> top_n]
        /\ answer' = FormatLeaderboard(stats, category, top_n, now)
    /\ UNCHANGED <<storeVars, parseVars, script>>

\* PlayerStatsTracker.analyze_for_mod_recommendations()
AnalyzeQuery ==
    /\ asked < MaxAsked
    /\ asked' = asked + 1
    /\ query' = [name |-> "analyze_for_mod_recommendations"]
    /\ answer' = AnalyzeForModRecommendations(stats)
    /\ UNCHANGED <<storeVars, parseVars, script>>

\* the get_player_stats tool of the bot
PlayerStatsToolCall ==
    /\ asked < MaxAsked
    /\ \E username \in AskedUsers, recent_logs \in RecentLogs :
        /\ \E r \in {PlayerStatsTool(stats, file, username, recent_logs)} :
            /\ query' = [name |-> "get_player_stats tool", username |-> username]
            /\ answer' = r.result
            /\ stats' = r.stats
            /\ file' = r.file
            /\ outcome' = r.outcome
            /\ batch' = recent_logs
            /\ ingested' = ingested \o recent_logs
            /\ inserted' = (DOMAIN r.stats.val) \ (DOMAIN stats.val)
    /\ op' = "tool"
    /\ asked' = asked + 1
    /\ UNCHANGED <<reloaded, parseVars, script>>

\* the get_leaderboard tool of the bot
LeaderboardToolCall ==
    /\ asked < MaxAsked
    /\ \E category \in AskedCategories, top_n \in TopNs, recent_logs \in RecentLogs, now \in Nows :
        /\ \E r \in {LeaderboardTool(stats, file, category, top_n, recent_logs, now)} :
            /\ query' = [name |-> "get_leaderboard tool", category |-> category,
                          top_n |-> top_n]
            /\ answer' = r.result
            /\ stats' = r.stats
            /\ file' = r.file
            /\ outcome' = r.outcome
            /\ batch' = recent_logs
            /\ ingested' = ingested \o recent_logs
            /\ inserted' = (DOMAIN r.stats.val) \ (DOMAIN stats.val)
    /\ op' = "tool"
    /\ asked' = asked + 1
    /\ UNCHANGED <<reloaded, parseVars, script>>

\* PlayerStatsTracker.get_server_summary()
GetServerSummaryQuery ==
    /\ asked < MaxAsked
    /\ asked' = asked + 1
    /\ query' = [name |-> "get_server_summary"]
    /\ answer' = GetServerSummary(stats)
    /\ UNCHANGED <<storeVars, parseVars, script>>

\* PlayerStatsTracker.format_player_stats(username)
FormatPlayerStatsQuery ==
    /\ asked < MaxAsked
    /\ asked' = asked + 1
    /\ \E username \in AskedUsers :
        /\ query' = [name |-> "format_player_stats", username |-> username]
        /\ answer' = FormatPlayerStats(stats, username)
        /\ stats' = GetPlayerStats(stats, username).stats
    /\ UNCHANGED <<file, op, batch, outcome, ingested, inserted, reloaded,
                   parseVars, script>>

QueryNext ==
    \/ GetPlaystyleProfilesQuery
    \/ GetLeaderboardsQuery
    \/ FormatLeaderboardQuery
    \/ AnalyzeQuery
    \/ GetServerSummaryQuery
    \/ FormatPlayerStatsQuery
    \/ PlayerStatsToolCall
    \/ LeaderboardToolCall

QuerySpec == QueryInit /\ [][QueryNext]_vars

\* ------------------------------------------------------------------ PlaystyleSpec
PlaystyleInit == TrackerAfter(SoloHistories)

PlaystyleNext ==
    \/ GetPlaystyleProfilesQuery
    \/ AnalyzeQuery

PlaystyleSpec == PlaystyleInit /\ [][PlaystyleNext]_vars

\* ================================================================== claims
RECURSIVE SumOver(_, _)
\* the sum of the numbers in a sequence
SumOver(q, i) == IF i > Len(q) THEN 0 ELSE q[i] + SumOver(q, i + 1)
KillsOfLives(r) == SumOver([i \in 1..Len(r.lives) |-> r.lives[i].zombies_killed], 1)
DistanceOfLives(r) == SumOver([i \in 1..Len(r.lives) |-> r.lives[i].distance_traveled], 1)

\* the record of user u in the running parse_logs call (the default record
\* when none was made yet)
Rec(u) == IF Has(player_stats, u) THEN player_stats.val[u] ELSE InitialStats
RecAfter(u) == IF Has(player_stats', u) THEN player_stats'.val[u] ELSE InitialStats

\* C1 (as claimed): in parse_logs, as long as every matched event had a
\* resolvable timestamp, each player's kills over the closed life segments
\* plus the current-life kills equal the lifetime kills, and likewise for
\* the distance; also when no Connect came before the first Death.
C1_LifetimeIsSumOfLives ==
    ~unresolved =>
        \A u \in DOMAIN player_stats.val :
            LET r == player_stats.val[u]
            IN  /\ KillsOfLives(r) + r.current_life_zombies_killed = r.lifetime_zombies_killed
                /\ DistanceOfLives(r) + r.current_life_distance_traveled
                       = r.lifetime_distance_traveled

\* the step folds a line that the player_death pattern matches
DeathStep == nlines' = nlines + 1 /\ Matches("player_death", line')

\* C2: a Death folded for a player whose current_life_start is set appends
\* exactly one life segment holding the pre-death current-life kills,
\* distance, craft count and building count and the death cause, leaves the
\* four current-life counters at zero, and sets current_life_start to the
\* death's timestamp.
C2_DeathClosesLife ==
    [][ (DeathStep /\ Truthy(Rec(line'.username).current_life_start)) =>
            LET old == Rec(line'.username)
                new == RecAfter(line'.username)
                seg == new.lives[Len(new.lives)]
            IN  /\ Len(new.lives) = Len(old.lives) + 1
                /\ SubSeq(new.lives, 1, Len(old.lives)) = old.lives
                /\ seg.zombies_killed = old.current_life_zombies_killed
                /\ seg.distance_traveled = old.current_life_distance_traveled
                /\ seg.items_crafted = Len(old.current_life_items_crafted)
                /\ seg.buildings_placed = Len(old.current_life_buildings_placed)
                /\ seg.death_cause = new.death_causes[Len(new.death_causes)]
                /\ seg.death_cause = ExtractDeathCause(line')
                /\ new.current_life_zombies_killed = 0
                /\ new.current_life_distance_traveled = 0
                /\ new.current_life_items_crafted = <<>>
                /\ new.current_life_buildings_placed = <<>>
                /\ new.current_life_start = ParseTimestamp(line'.stamp)
      ]_vars

\* C2 witness: a death has just closed a life in which the player had
\* killed a zombie, and the current-life kill counter is back at zero.
C2_Witness ==
    /\ Matches("player_death", line)
    /\ Has(player_stats, line.username)
    /\ LET r == player_stats.val[line.username]
       IN  /\ Len(r.lives) = 1
           /\ r.lives[1].zombies_killed = 1
           /\ r.lifetime_zombies_killed = 1
           /\ r.current_life_zombies_killed = 0
           /\ r.current_life_start = ParseTimestamp(line.stamp)

\* what parse_logs returns for all the lines ingested so far, given as one batch
OneBatch == ParseLogs(ingested)

\* C3 (as claimed): without a restart in between, the stored record of every
\* player has the current-life counters, current_life_start, lifetime
\* counters and life history that one parse_logs call over all the
\* ingested lines gives.
C3_BatchesComposeLikeOneBatch ==
    ~reloaded =>
        \A u \in DOMAIN stats.val :
            /\ Has(OneBatch, u)
            /\ LET r == stats.val[u]
                   one == OneBatch.val[u]
               IN  /\ r.current_life_zombies_killed = one.current_life_zombies_killed
                   /\ r.current_life_distance_traveled = one.current_life_distance_traveled
                   /\ r.current_life_start = one.current_life_start
                   /\ r.lifetime_zombies_killed = one.lifetime_zombies_killed
                   /\ r.lifetime_distance_traveled = one.lifetime_distance_traveled
                   /\ r.lives = one.lives

\* C4 (as claimed): every update_from_logs call ends with a save that
\* succeeds and writes the whole in-memory mapping.
C4_UpdateEndsWithSave ==
    op = "update" => (outcome = "ok" /\ file = JsonFile(StatsCopy(stats)))

\* C5 (as claimed): a load after a successful save gives back the mapping
\* that was saved, every datetime as the same datetime.
C5_LoadAfterSaveIsIdentity ==
    [][ (op = "update" /\ outcome = "ok" /\ op' = "restart") => stats' = stats ]_vars

\* the fields the tracker merges, compared between two records (first_seen
\* and last_seen by the instant they denote)
SameMerged(a, b) ==
    /\ a.connections = b.connections
    /\ a.disconnections = b.disconnections
    /\ a.zombies_killed = b.zombies_killed
    /\ a.deaths = b.deaths
    /\ a.distance_traveled = b.distance_traveled
    /\ a.vehicles_entered = b.vehicles_entered
    /\ a.death_causes = b.death_causes
    /\ a.level_ups = b.level_ups
    /\ a.items_crafted = b.items_crafted
    /\ a.buildings_placed = b.buildings_placed
    /\ a.session_times = b.session_times
    /\ Truthy(a.first_seen) = Truthy(b.first_seen)
    /\ a.first_seen.v = b.first_seen.v
    /\ Truthy(a.last_seen) = Truthy(b.last_seen)
    /\ a.last_seen.v = b.last_seen.v

\* C6 (as claimed): once the mapping has been saved, merging a batch into
\* the mapping reloaded from the file ends as merging it into the in-memory
\* mapping does (no error of its own) and gives every player the same
\* counters, lists and first_seen/last_seen.
C6_MergeAfterReload ==
    (op = "update" /\ outcome = "ok") =>
        \A l \in LogLines :
            LET re == UpdateFromLogs(LoadStats(file), file, <<l>>)
                mem == UpdateFromLogs(stats, file, <<l>>)
            IN  /\ re.outcome = mem.outcome
                /\ DOMAIN re.stats.val = DOMAIN mem.stats.val
                /\ \A u \in DOMAIN mem.stats.val :
                       SameMerged(re.stats.val[u], mem.stats.val[u])

\* C7: a second update_from_logs call with the batch of the call before
\* leaves every player that the first call put in as new with connections,
\* disconnections, zombies_killed, deaths, distance_traveled and
\* vehicles_entered at twice their value after the first call.
C7_SameBatchTwiceDoubles ==
    [][ (op = "update" /\ op' = "update" /\ batch' = batch) =>
            \A u \in inserted :
                /\ Has(stats', u)
                /\ LET a == stats.val[u]
                       b == stats'.val[u]
                   IN  /\ b.connections = 2 * a.connections
                       /\ b.disconnections = 2 * a.disconnections
                       /\ b.zombies_killed = 2 * a.zombies_killed
                       /\ b.deaths = 2 * a.deaths
                       /\ b.distance_traveled = 2 * a.distance_traveled
                       /\ b.vehicles_entered = 2 * a.vehicles_entered
      ]_vars

\* C7 witness: the same one-line batch was merged twice into a store that
\* began without the player, whose connections went from 1 to 2.
C7_Witness ==
    /\ ~reloaded
    /\ op = "update"
    /\ Len(batch) = 1
    /\ ingested = batch \o batch
    /\ Matches("player_connect", batch[1])
    /\ Has(stats, batch[1].username)
    /\ stats.val[batch[1].username].connections = 2

\* C8 (as claimed): an update_from_logs call with an empty batch leaves the
\* in-memory mapping as it was, level_ups entries included.
C8_EmptyBatchChangesNothing ==
    [][ (op' = "update" /\ batch' = <<>>) => stats' = stats ]_vars

\* C9 (as claimed): a Disconnect line with a parseable timestamp t2, folded
\* while the user has a pending session start t1, appends t2 - t1 to the
\* user's session_times and clears the pending start.
C9_DisconnectPairsSession ==
    [][ ( /\ nlines' = nlines + 1
          /\ Matches("player_disconnect", line')
          /\ Truthy(ParseTimestamp(line'.stamp))
          /\ line'.username \in DOMAIN session_starts
          /\ IsDatetime(session_starts[line'.username]) ) =>
            /\ RecAfter(line'.username).session_times =
                   Append(Rec(line'.username).session_times,
                          ParseTimestamp(line'.stamp).v - session_starts[line'.username].v)
            /\ line'.username \notin DOMAIN session_starts'
      ]_vars

\* the resolvable timestamps of user u's events in a sequence of lines
TimesSeen(u, log_lines) ==
    UNION {MatchedTimes(log_lines[i]) :
              i \in {j \in 1..Len(log_lines) : log_lines[j].username = u}}
Minimum(S) == CHOOSE x \in S : \A y \in S : x <= y
Maximum(S) == CHOOSE x \in S : \A y \in S : x >= y

\* C10 (as claimed): without a restart in between, first_seen is the least
\* and last_seen the greatest resolvable timestamp among all the events
\* ingested for the player.
C10_SeenAreMinAndMax ==
    ~reloaded =>
        \A u \in DOMAIN stats.val :
            LET ts == TimesSeen(u, ingested)
            IN  ts # {} =>
                    /\ stats.val[u].first_seen.v = Minimum(ts)
                    /\ stats.val[u].last_seen.v = Maximum(ts)

\* C11: after the whole sequence - a timestamped connect line of user U, k
\* lines "U killed a zombie" and a line "U died" without bracketed
\* timestamp, then the disconnect line - the record of U has connections = 1,
\* lifetime_zombies_killed = k, current_life_zombies_killed = 0, deaths = 1
\* and exactly one life segment, whose zombies_killed is k.
C11_EndToEndRecord ==
    (script # <<>> /\ nlines = Len(script)) =>
        LET U == script[1].username
            k == Len(script) - 3
        IN  /\ Has(player_stats, U)
            /\ player_stats.val[U].connections = 1
            /\ player_stats.val[U].lifetime_zombies_killed = k
            /\ player_stats.val[U].current_life_zombies_killed = 0
            /\ player_stats.val[U].deaths = 1
            /\ Len(player_stats.val[U].lives) = 1
            /\ player_stats.val[U].lives[1].zombies_killed = k

\* C12: a player's record, once in the tracker's mapping, is in it after
\* every later operation: no update and no restart removes it.
C12_RecordNeverDeleted ==
    [][\A u \in Users : Has(stats, u) => Has(stats', u)]_vars

\* C13: loading never fails: when the stats file is missing or does not
\* decode, constructing the tracker ends without error and its mapping is
\* empty.
C13_LoadNeverFails ==
    (op \in {"init", "restart"} /\ file.kind # "json") =>
        (stats = EmptyDict /\ outcome = "ok")

\* a restart that found a file that does not decode
C13_Witness == op = "restart" /\ file.kind = "corrupt"

\* a line that matches no recognizer or lacks a required field: no event
\* phrase, no bracketed timestamp where the phrase needs one, or a number
\* that is not an integer
IsBadLine(l) ==
    \/ l.phrase = "junk"
    \/ (l.phrase # "player_disconnect" /\ l.stamp.form = "none")
    \/ (l.phrase \in {"distance_traveled", "level_up"} /\ l.amount = NotDigits)

\* C14: a bad line J is skipped: folding it changes neither the records nor
\* the pending session starts, so that parse_logs(L1 + [J] + L2) goes on
\* from the state parse_logs(L1 + L2) is in after L1 and returns the same
\* records.
C14_BadLineIsSkipped ==
    [][(nlines' = nlines + 1 /\ IsBadLine(line')) =>
            (player_stats' = player_stats /\ session_starts' = session_starts)]_vars

\* a distance line with a non-integer amount was folded after other lines
\* had made the user's record
C14_Witness ==
    /\ nlines >= 2
    /\ line.phrase = "distance_traveled" /\ line.amount = NotDigits
    /\ Has(player_stats, line.username)

\* the rules (a) to (f) of the playstyle decision list, for one record
PlaystyleRules(r) ==
    << r.zombies_killed > 50 /\ 10 * r.zombies_killed > r.distance_traveled,
       r.distance_traveled > 1000 /\ r.distance_traveled > r.zombies_killed * 10,
       Len(r.buildings_placed) > 20 \/ Len(r.items_crafted) > 50,
       r.deaths > 5,
       r.connections > 10,
       TRUE >>
PlaystyleLabels ==
    <<"Combat-Focused Fighter", "Explorer/Looter", "Builder/Crafter",
      "High-Risk Player", "Regular Player", "Casual Survivor">>
FirstRule(r) ==
    CHOOSE i \in 1..6 : PlaystyleRules(r)[i] /\ \A j \in 1..(i - 1) : ~PlaystyleRules(r)[j]

\* C15: the playstyle profiles give every player of the store the label of
\* the first rule, in the order (a) to (f), that the player's record
\* satisfies.
C15_ProfileIsFirstMatchingRule ==
    query.name = "get_playstyle_profiles" =>
        /\ DOMAIN answer = DOMAIN stats.val
        /\ \A u \in DOMAIN stats.val : answer[u] = PlaystyleLabels[FirstRule(stats.val[u])]

\* the player of the spec's example (60 kills, distance 200, 15 connections)
\* satisfies rules (a) and (e) and is a Combat-Focused Fighter
C15_Witness ==
    /\ query.name = "get_playstyle_profiles"
    /\ \E u \in DOMAIN stats.val :
        /\ stats.val[u].zombies_killed = 60
        /\ stats.val[u].distance_traveled = 200
        /\ stats.val[u].connections = 15
        /\ answer[u] = "Combat-Focused Fighter"

\* position of username u in the store mapping
KeyIndex(u) == CHOOSE i \in 1..Len(stats.keys) : stats.keys[i] = u

\* C16: get_leaderboards returns exactly the nine categories; each list is
\* in non-increasing order of value, and players of equal value are in the
\* order of the store mapping.
C16_NineSortedStableBoards ==
    query.name = "get_leaderboards" =>
        /\ DOMAIN answer =
              {"zombies_killed", "distance_traveled", "buildings_placed",
               "items_crafted", "total_playtime", "longest_life",
               "current_life_duration", "kill_death_ratio", "most_deaths"}
        /\ \A c \in DOMAIN answer : \A i, j \in 1..Len(answer[c]) :
              i < j =>
                /\ ~NumLess(answer[c][i][2], answer[c][j][2])
                /\ NumEq(answer[c][i][2], answer[c][j][2]) =>
                      KeyIndex(answer[c][i][1]) < KeyIndex(answer[c][j][1])

\* two players, with equal values on one board and, on another, the player
\* that is second in the mapping first
C16_Witness ==
    /\ query.name = "get_leaderboards"
    /\ Len(stats.keys) = 2
    /\ NumEq(answer.zombies_killed[1][2], answer.zombies_killed[2][2])
    /\ answer.zombies_killed[1][2].num > 0
    /\ \E c \in DOMAIN answer : Len(answer[c]) = 2 /\ answer[c][1][1] = stats.keys[2]

\* C17: every player has an entry on the kill_death_ratio board, whose
\* value is zombies_killed divided by max(deaths, 1): the divisor is never
\* zero, and with 0 deaths the ratio is the number of kills.
C17_RatioFloorsDeathsAtOne ==
    query.name = "get_leaderboards" =>
        /\ Len(answer.kill_death_ratio) = Len(stats.keys)
        /\ \A i \in 1..Len(answer.kill_death_ratio) :
              LET r == stats.val[answer.kill_death_ratio[i][1]]
                  value == answer.kill_death_ratio[i][2]
              IN  /\ value.den >= 1
                  /\ NumEq(value, [num |-> r.zombies_killed,
                                    den |-> IF r.deaths > 1 THEN r.deaths ELSE 1])
                  /\ r.deaths = 0 => NumEq(value, Num(r.zombies_killed))

\* a player with 0 deaths and 5 kills is on the board with ratio 5
C17_Witness ==
    /\ query.name = "get_leaderboards"
    /\ \E i \in 1..Len(answer.kill_death_ratio) :
        /\ stats.val[answer.kill_death_ratio[i][1]].deaths = 0
        /\ stats.val[answer.kill_death_ratio[i][1]].zombies_killed = 5
        /\ NumEq(answer.kill_death_ratio[i][2], Num(5))

\* the request ended in an error report
ReportsError(a) ==
    a.head \in {"Unknown leaderboard category", "Invalid leaderboard category",
                "Error executing get_leaderboard"}

\* C18: a leaderboard request for a category that is not one of the nine
\* is reported as an error, and a request for one of the nine categories
\* whose board has no entry is not.
C18_ErrorIffUnknownCategory ==
    query.name \in {"format_leaderboard", "get_leaderboard tool"} =>
        /\ query.category \notin Categories => ReportsError(answer)
        /\ (/\ query.category \in Categories
            /\ \A now \in Nows : BoardEntries(stats, query.category, now) = <<>>)
              => ~ReportsError(answer)

\* C19: a stats lookup for a username without record reports "no data for
\* this user" when the store holds other players and "no data for any user
\* yet" when the store is empty, and reports neither for a username that
\* has a record.
C19_LookupOfMissingPlayer ==
    query.name = "get_player_stats tool" =>
        /\ (~Has(stats, query.username) /\ stats.keys # <<>>)
              => answer.head = "No statistics found for player"
        /\ (~Has(stats, query.username) /\ stats.keys = <<>>)
              => answer.head = "No player statistics available yet"
        /\ Has(stats, query.username)
              => answer.head \notin {"No statistics found for player",
                                      "No player statistics available yet"}

\* the aggregate of each score, and the constant it is normalised with
Aggregates ==
    LET Over(Value(_)) == SumOver([i \in 1..Len(stats.keys) |-> Value(stats.val[stats.keys[i]])], 1)
        Kills(r) == r.zombies_killed
        Builds(r) == Len(r.buildings_placed)
        Crafts(r) == Len(r.items_crafted)
        Vehicles(r) == r.vehicles_entered
        Distance(r) == r.distance_traveled
        Deaths(r) == r.deaths
    IN  [combat |-> <<Over(Kills), 100>>, building |-> <<Over(Builds), 50>>,
         crafting |-> <<Over(Crafts), 100>>, vehicles |-> <<Over(Vehicles), 10>>,
         exploration |-> <<Over(Distance), 1000>>, difficulty |-> <<Over(Deaths), 3>>]

AnalyticsOperations ==
    {"get_leaderboards", "get_playstyle_profiles", "get_server_summary",
     "analyze_for_mod_recommendations", "format_leaderboard", "format_player_stats"}

\* C21: get_leaderboards, get_playstyle_profiles, get_server_summary,
\* analyze_for_mod_recommendations, format_leaderboard and
\* format_player_stats leave the store mapping (its keys, their order and
\* every record) as it was.
C21_AnalyticsLeaveStore ==
    [][ (asked' = asked + 1 /\ query'.name \in AnalyticsOperations) =>
            stats' = stats ]_vars

\* format_player_stats was asked for a username the non-empty store has no
\* record of
C21_Witness ==
    /\ query.name = "format_player_stats"
    /\ stats.keys # <<>>
    /\ ~Has(stats, query.username)
    /\ answer = NoText

\* C22: the server summary of a non-empty store lists playstyle counts
\* that add up to the number of players, in non-increasing order of count,
\* and its zombie, death and distance totals are the sums of the players'
\* zombies_killed, deaths and distance_traveled.
C22_SummaryTotalsAndHistogram ==
    (query.name = "get_server_summary" /\ stats.keys # <<>>) =>
        LET rows == answer.rows
            Sum(Value(_)) ==
                SumOver([i \in 1..Len(stats.keys) |-> Value(stats.val[stats.keys[i]])], 1)
            Kills(r) == r.zombies_killed
            Deaths(r) == r.deaths
            Distance(r) == r.distance_traveled
        IN  /\ SumOver([i \in 1..Len(rows) |-> rows[i][2]], 1) = Len(stats.keys)
            /\ \A i, j \in 1..Len(rows) : i < j => rows[i][2] >= rows[j][2]
            /\ \A i, j \in 1..Len(rows) : i # j => rows[i][1] # rows[j][1]
            /\ answer.arg.total_players = Len(stats.keys)
            /\ answer.arg.total_zombies = Sum(Kills)
            /\ answer.arg.total_deaths = Sum(Deaths)
            /\ answer.arg.total_distance = Sum(Distance)

\* three players, the label of the first one listed after the label the
\* two others share
C22_Witness ==
    /\ query.name = "get_server_summary"
    /\ Len(stats.keys) = 3
    /\ Len(answer.rows) = 2
    /\ answer.rows[1][2] = 2 /\ answer.rows[2][2] = 1
    /\ answer.rows[2][1] = ProfileOf(stats.val[stats.keys[1]])
    /\ answer.arg.total_zombies > 0

\* the keywords in the order claimed, and the label claimed for each
ClaimedCauses ==
    << <<"zombie", "Zombie">>, <<"starvation", "Starvation">>,
       <<"dehydration", "Dehydration">>, <<"bleeding", "Blood Loss">>,
       <<"infection", "Infection">>, <<"fall", "Fall Damage">>,
       <<"fire", "Fire">>, <<"vehicle", "Vehicle Accident">> >>

\* the keyword a word of the line is, whatever its case
Folded(word) ==
    IF word \in {"Zombie", "zombie", "ZOMBIE"} THEN "zombie"
    ELSE IF word \in {"Starvation", "starvation", "STARVATION"} THEN "starvation"
    ELSE IF word \in {"Dehydration", "dehydration", "DEHYDRATION"} THEN "dehydration"
    ELSE IF word \in {"Bleeding", "bleeding", "BLEEDING"} THEN "bleeding"
    ELSE IF word \in {"Infection", "infection", "INFECTION"} THEN "infection"
    ELSE IF word \in {"Fall", "fall", "FALL"} THEN "fall"
    ELSE IF word \in {"Fire", "fire", "FIRE"} THEN "fire"
    ELSE IF word \in {"Vehicle", "vehicle", "VEHICLE"} THEN "vehicle"
    ELSE "none"

\* C23: the death cause recorded for a death line is the label of the first
\* keyword of the table zombie, starvation, dehydration, bleeding,
\* infection, fall, fire, vehicle that the line contains in any case,
\* whatever other keywords it contains, and Unknown when it contains none.
C23_FirstKeywordWins ==
    (nlines = 1 /\ line.phrase = "player_death") =>
        LET contained == {Folded(word) : word \in line.keywords}
            first == {i \in 1..Len(ClaimedCauses) :
                        /\ ClaimedCauses[i][1] \in contained
                        /\ \A j \in 1..(i - 1) : ClaimedCauses[j][1] \notin contained}
        IN  /\ Has(player_stats, line.username)
            /\ \E cause \in {player_stats.val[line.username].death_causes} :
                /\ Len(cause) = 1
                /\ first = {} => cause[1] = "Unknown"
                /\ \A i \in first : cause[1] = ClaimedCauses[i][2]

\* a line with "Fall" and "Vehicle" in capitals, no keyword before them,
\* gave Fall Damage
C23_Witness ==
    /\ nlines = 1
    /\ line.phrase = "player_death"
    /\ line.keywords = {"Fall", "Vehicle", "bitten"}
    /\ player_stats.val[line.username].death_causes = <<"Fall Damage">>

\* the current-life counters and the life history of a record
CurrentLife(r) ==
    <<r.current_life_zombies_killed, r.current_life_distance_traveled,
      r.current_life_items_crafted, r.current_life_buildings_placed,
      r.lives, r.death_timestamps, r.last_death>>

\* C24: a Connect sets current_life_start (to its timestamp) only when it
\* is unset; neither a Connect nor a Disconnect changes the current-life
\* counters, the life history or a current_life_start that is set.
C24_ConnectKeepsCurrentLife ==
    [][ \A u \in Users :
          (line'.username = u /\ nlines' = nlines + 1
              /\ MatchedTypes(line') \in {{"player_connect"}, {"player_disconnect"}}) =>
            /\ CurrentLife(RecAfter(u)) = CurrentLife(Rec(u))
            /\ Rec(u).current_life_start # None =>
                  RecAfter(u).current_life_start = Rec(u).current_life_start
            /\ (Rec(u).current_life_start = None /\ line'.phrase = "player_connect") =>
                  RecAfter(u).current_life_start = ParseTimestamp(line'.stamp)
            /\ line'.phrase = "player_disconnect" =>
                  RecAfter(u).current_life_start = Rec(u).current_life_start
      ]_vars

\* a Connect with a later timestamp came to a player in a life that began
\* at time 1 and has a kill
C24_Witness ==
    /\ line.phrase = "player_connect"
    /\ line.stamp = Dmy(2)
    /\ Has(player_stats, line.username)
    /\ Rec(line.username).connections = 2
    /\ Rec(line.username).current_life_start = Datetime(1)
    /\ Rec(line.username).current_life_zombies_killed = 1

\* C25: session_starts holds at most one pending start per username, and
\* only for usernames that connected; a Connect puts its own timestamp in
\* the place of a pending start; a Disconnect appends at most one session
\* duration; session_times never has more entries than there were Connects
\* or Disconnects of the player.
C25_OneOpenSession ==
    [][ /\ DOMAIN session_starts' \subseteq DOMAIN player_stats'.val
        /\ \A u \in Users :
            /\ Len(RecAfter(u).session_times) <= RecAfter(u).connections
            /\ Len(RecAfter(u).session_times) <= RecAfter(u).disconnections
            /\ (line'.username = u /\ nlines' = nlines + 1) =>
                /\ "player_connect" \in MatchedTypes(line') =>
                      /\ u \in DOMAIN session_starts'
                      /\ session_starts'[u] = ParseTimestamp(line'.stamp)
                /\ Len(RecAfter(u).session_times) - Len(Rec(u).session_times)
                      <= (IF "player_disconnect" \in MatchedTypes(line') THEN 1 ELSE 0)
                /\ Len(RecAfter(u).session_times) >= Len(Rec(u).session_times)
      ]_vars

\* a Disconnect came after a second Connect had replaced the pending start
\* of the first
C25_Witness ==
    /\ line.phrase = "player_disconnect"
    /\ Has(player_stats, line.username)
    /\ Rec(line.username).connections = 2
    /\ Rec(line.username).disconnections = 1
    /\ Rec(line.username).first_seen = Datetime(1)
    /\ line.username \in DOMAIN session_starts
    /\ session_starts[line.username] = Datetime(2)
    /\ Len(Rec(line.username).session_times) <= 1

\* the lifetime counters of a record
Lifetime(r) ==
    <<r.lifetime_zombies_killed, r.lifetime_distance_traveled,
      Len(r.lifetime_items_crafted), Len(r.lifetime_buildings_placed)>>

NoLess(a, b) == \A i \in 1..Len(b) : a[i] >= b[i]

RecordOf(d, u) == IF Has(d, u) THEN d.val[u] ELSE InitialStats

\* C26: lifetime_zombies_killed, lifetime_distance_traveled and the
\* lengths of lifetime_items_crafted and lifetime_buildings_placed of a
\* player never decrease: not under any event of the batch that
\* update_from_logs parses (a Death leaves them as they were), and not
\* under the merge of the batch into the store.
C26_LifetimeNeverDecreases ==
    [][ op' = "update" =>
          /\ \A u \in DOMAIN stats.val :
                /\ Has(stats', u)
                /\ NoLess(Lifetime(stats'.val[u]), Lifetime(stats.val[u]))
          /\ \A i \in 1..Len(batch') :
                \E before \in {ParseLogs(SubSeq(batch', 1, i - 1))},
                   after \in {ParseLogs(SubSeq(batch', 1, i))} :
                    \A u \in Users :
                      \E was \in {Lifetime(RecordOf(before, u))},
                         is \in {Lifetime(RecordOf(after, u))} :
                          /\ NoLess(is, was)
                          /\ MatchedTypes(batch'[i]) = {"player_death"} => is = was
      ]_vars

\* a Death of a player was merged into the record that an earlier call gave
\* the player for a kill: the lifetime kills are still 1
C26_Witness ==
    /\ op = "update"
    /\ Len(ingested) = 2 /\ Len(batch) = 1
    /\ ingested[1].phrase = "zombie_killed"
    /\ batch[1].phrase = "player_death"
    /\ batch[1].username = ingested[1].username
    /\ Has(stats, batch[1].username)
    /\ stats.val[batch[1].username].deaths = 1
    /\ stats.val[batch[1].username].lifetime_zombies_killed = 1

\* a level_ups list by what its entries say (the timestamp by its instant:
\* _save_stats turns the datetime of an entry into its ISO text in place)
LevelUpEntries(level_ups) ==
    [i \in 1..Len(level_ups) |->
        <<level_ups[i].skill, level_ups[i].level, level_ups[i].timestamp.v>>]

\* the merge loop got as far as the record of u: no record before it in the
\* batch raised
MergeReached(st, parsed, u) ==
    \A i \in 1..Len(parsed.keys) :
        (\E j \in (i + 1)..Len(parsed.keys) : parsed.keys[j] = u) =>
            ~(Has(st, parsed.keys[i])
                /\ MergeOne(st.val[parsed.keys[i]], parsed.val[parsed.keys[i]]).raised)

\* C27: the merge of a batch into an existing record leaves each of
\* death_causes, level_ups, items_crafted, buildings_placed and
\* session_times as the stored list followed by the batch's list in the
\* order of the batch, duplicates and blank labels kept.
C27_MergeAppendsLists ==
    [][ (asked' = asked + 1
            /\ query'.name \in {"get_player_stats tool", "get_leaderboard tool"}) =>
          \E parsed \in {ParseLogs(batch')} :
            \A u \in (DOMAIN stats.val) \cap (DOMAIN parsed.val) :
              MergeReached(stats, parsed, u) =>
                LET old == stats.val[u]
                    new == parsed.val[u]
                    now == stats'.val[u]
                IN  /\ now.death_causes = old.death_causes \o new.death_causes
                    /\ LevelUpEntries(now.level_ups)
                          = LevelUpEntries(old.level_ups \o new.level_ups)
                    /\ now.items_crafted = old.items_crafted \o new.items_crafted
                    /\ now.buildings_placed = old.buildings_placed \o new.buildings_placed
                    /\ now.session_times = old.session_times \o new.session_times
      ]_vars

\* a batch with a blank item, a level-up and a "Plank" was merged into a
\* record that had one "Plank"
C27_Witness ==
    /\ op = "tool"
    /\ Len(batch) = 3
    /\ Has(stats, "Bob")
    /\ stats.val["Bob"].items_crafted = <<"Plank", " ", "Plank">>
    /\ Len(stats.val["Bob"].level_ups) = 1
    /\ ~IsDatetime(stats.val["Bob"].level_ups[1].timestamp)

\* a record without the fields a VehicleEntered event may change
BesidesVehicle(r) ==
    [r EXCEPT !.vehicles_entered = 0, !.first_seen = None, !.last_seen = None]

\* C28: a VehicleEntered event adds one to the player's vehicles_entered
\* and may change the player's first_seen and last_seen; every other field
\* of the record and the record of every other player stay as they were.
C28_VehicleChangesOnlyItsCounter ==
    [][ \A u \in Users :
          (line'.username = u /\ nlines' = nlines + 1
              /\ MatchedTypes(line') = {"vehicle_entered"}) =>
            /\ RecAfter(u).vehicles_entered = Rec(u).vehicles_entered + 1
            /\ BesidesVehicle(RecAfter(u)) = BesidesVehicle(Rec(u))
            /\ \A w \in Users \ {u} :
                  /\ Has(player_stats', w) = Has(player_stats, w)
                  /\ RecAfter(w) = Rec(w)
            /\ session_starts' = session_starts
      ]_vars

\* a player with a kill entered a vehicle while another player has a record
C28_Witness ==
    /\ line.phrase = "vehicle_entered"
    /\ Has(player_stats, line.username)
    /\ Rec(line.username).vehicles_entered = 1
    /\ Rec(line.username).zombies_killed = 1
    /\ \E w \in Users \ {line.username} : Has(player_stats, w)

\* the places of user u on a board
PlacesOf(board, u) == {i \in 1..Len(board) : board[i][1] = u}

\* C29: on the longest_life board a player with closed lives stands once,
\* with the largest duration of a closed life; a player without closed life
\* whose current life is open stands once, with the time elapsed since
\* current_life_start; a player with neither is left out. The
\* current_life_duration board holds exactly the players whose
\* current_life_start is set, and each of the seven other boards holds
\* every player exactly once.
C29_BoardMembership ==
    query.name = "get_leaderboards" =>
        /\ \A c \in DOMAIN answer : \A i \in 1..Len(answer[c]) : Has(stats, answer[c][i][1])
        /\ \A u \in DOMAIN stats.val :
            LET r == stats.val[u]
                longest == PlacesOf(answer.longest_life, u)
                durations == {r.lives[i].duration : i \in 1..Len(r.lives)}
            IN  /\ IF r.lives # <<>>
                   THEN /\ Cardinality(longest) = 1
                        /\ \A i \in longest :
                              /\ \E m \in durations : NumEq(answer.longest_life[i][2], Num(m))
                              /\ \A m \in durations : ~NumLess(answer.longest_life[i][2], Num(m))
                   ELSE IF Truthy(r.current_life_start)
                   THEN /\ Cardinality(longest) = 1
                        /\ \A i \in longest :
                              NumEq(answer.longest_life[i][2],
                                    Num(query.now - r.current_life_start.v))
                   ELSE longest = {}
                /\ Cardinality(PlacesOf(answer.current_life_duration, u))
                      = (IF Truthy(r.current_life_start) THEN 1 ELSE 0)
                /\ \A c \in DOMAIN answer \ {"longest_life", "current_life_duration"} :
                      Cardinality(PlacesOf(answer[c], u)) = 1
        /\ Cardinality(DOMAIN answer \ {"longest_life", "current_life_duration"}) = 7

\* one player with two closed lives of durations 1 and 0, listed with 1,
\* and one player with no life at all, left out of both life boards
C29_Witness ==
    /\ query.name = "get_leaderboards"
    /\ Len(stats.keys) = 2
    /\ Len(answer.longest_life) = 1
    /\ Len(answer.current_life_duration) = 1
    /\ Len(stats.val[answer.longest_life[1][1]].lives) = 2
    /\ stats.val[answer.longest_life[1][1]].lives[2].duration = 0
    /\ NumEq(answer.longest_life[1][2], Num(1))
    /\ Len(answer.zombies_killed) = 2

\* C30 (as claimed): after any sequence of update_from_logs calls every
\* player's zombies_killed equals lifetime_zombies_killed and
\* distance_traveled equals lifetime_distance_traveled.
C30_LegacyEqualsLifetime ==
    \A u \in DOMAIN stats.val :
        /\ stats.val[u].zombies_killed = stats.val[u].lifetime_zombies_killed
        /\ stats.val[u].distance_traveled = stats.val[u].lifetime_distance_traveled

\* ------------------------------------------------------------------ C31..C35
\* C31 (as claimed): when the save at the end of update_from_logs fails,
\* the file still holds what the last successful save wrote: a reload after
\* the failed save gives the mapping a reload before it gave.
C31_FailedSaveKeepsSnapshot ==
    [][ (op' = "update" /\ outcome' = "save_TypeError") =>
            LoadStats(file') = LoadStats(file) ]_vars

\* deaths, death_causes and the life history of a record agree
DeathsAgree(r) ==
    /\ r.deaths = Len(r.death_causes)
    /\ Len(r.lives) <= r.deaths

\* the history a is the beginning of the history b
IsPrefix(a, b) == Len(a) <= Len(b) /\ SubSeq(b, 1, Len(a)) = a

\* C32: for every player deaths equals the length of death_causes and the
\* number of closed life segments never exceeds deaths, after every event
\* of a batch and after the merge of the batch into the store; the life
\* history only grows at its end: no event and no merge changes or removes
\* a segment it holds.
C32_DeathsCausesAndLives ==
    [][ (asked' = asked + 1
            /\ query'.name \in {"get_player_stats tool", "get_leaderboard tool"}) =>
          /\ \A u \in DOMAIN stats.val :
                /\ DeathsAgree(stats.val[u])
                /\ Has(stats', u)
                /\ IsPrefix(stats.val[u].lives, stats'.val[u].lives)
          /\ \A u \in DOMAIN stats'.val : DeathsAgree(stats'.val[u])
          /\ \A i \in 1..Len(batch') :
                \E before \in {ParseLogs(SubSeq(batch', 1, i - 1))},
                   after \in {ParseLogs(SubSeq(batch', 1, i))} :
                    \A u \in DOMAIN after.val :
                        /\ DeathsAgree(after.val[u])
                        /\ IsPrefix(RecordOf(before, u).lives, after.val[u].lives)
      ]_vars

\* a batch with a Connect and a Death of Amy was merged into a record of
\* Amy that had two closed lives: three deaths, three causes, the two lives
C32_Witness ==
    /\ query.name \in {"get_player_stats tool", "get_leaderboard tool"}
    /\ Len(batch) = 2
    /\ batch[2].phrase = "player_death"
    /\ Has(stats, batch[2].username)
    /\ stats.val[batch[2].username].deaths = 3
    /\ Len(stats.val[batch[2].username].death_causes) = 3
    /\ Len(stats.val[batch[2].username].lives) = 2
    /\ stats.val[batch[2].username].lives[1].duration = 1

\* C33 (as claimed): in parse_logs every closed life segment ends not
\* earlier than it starts and has a non-negative duration, equal to end
\* minus start when the end is known, in whatever order the timestamps of
\* the lines come.
C33_LifeEndsAfterStart ==
    \A u \in DOMAIN player_stats.val :
        \A i \in 1..Len(player_stats.val[u].lives) :
            LET seg == player_stats.val[u].lives[i]
            IN  /\ seg.duration >= 0
                /\ Truthy(seg.end) =>
                      /\ seg.end.v >= seg.start.v
                      /\ seg.duration = seg.end.v - seg.start.v

\* C34 (as claimed): within one batch the life segments of a player follow
\* each other without a gap: each segment after the first starts where the
\* segment before it ended.
C34_LivesAreContiguous ==
    \A u \in DOMAIN player_stats.val :
        \A i \in 2..Len(player_stats.val[u].lives) :
            player_stats.val[u].lives[i].start = player_stats.val[u].lives[i - 1].end

\* the batch holds a Connect of user u
ConnectsIn(log_lines, u) ==
    \E i \in 1..Len(log_lines) :
        Matches("player_connect", log_lines[i]) /\ log_lines[i].username = u

\* C35: a pending session start does not outlive its update_from_logs
\* call: a call whose batch holds no Connect of a player adds no entry to
\* the player's session_times, whatever Connects earlier calls saw and
\* whatever Disconnects the batch holds.
C35_NoSessionAcrossBatches ==
    [][ op' = "update" =>
          \A u \in Users :
            ~ConnectsIn(batch', u) =>
                Len(RecordOf(stats', u).session_times)
                    = Len(RecordOf(stats, u).session_times)
      ]_vars

\* a Disconnect of a player with a bracketed timestamp came in the call
\* after the one with the player's Connect: no session was recorded
C35_Witness ==
    /\ op = "update"
    /\ Len(ingested) = 2 /\ Len(batch) = 1
    /\ Matches("player_connect", ingested[1])
    /\ Matches("player_disconnect", batch[1])
    /\ batch[1].stamp = Dmy(2)
    /\ batch[1].username = ingested[1].username
    /\ Has(stats, batch[1].username)
    /\ stats.val[batch[1].username].connections = 1
    /\ stats.val[batch[1].username].disconnections = 1
    /\ stats.val[batch[1].username].session_times = <<>>

====
